---- MODULE Spec2Model ----
(***************************************************************************)
(* Model of the Feishu Bitable task tools of httprunner/adb-skill:         *)
(*   - the read path  (feishu-bitable-task-fetcher/scripts/fetch_tasks.py) *)
(*   - the write path (feishu-bitable-task-manager-py/scripts/             *)
(*                     create_tasks.py)                                    *)
(* Text is a sequence of code points; a JSON / Python value is a record    *)
(* tagged by its runtime shape in field t.                                 *)
(***************************************************************************)
EXTENDS Integers, Sequences, FiniteSets, TLC

VARIABLES
    pc,          \* position of the run being modelled
    calls,       \* remote calls issued so far, in order
    responses,   \* responses received so far, in order
    store,       \* rows of the remote table, in store order
    page_size,   \* fetch_records: page_size (argument, then clamped)
    limit,       \* fetch_records: limit
    max_pages,   \* fetch_records: max_pages
    items,       \* fetch_records: accumulated rows
    page_token,  \* fetch_records: current cursor
    pages,       \* fetch_records: page counter
    stop,        \* fetch_records: which break left the loop
    returned,    \* value returned by the operation, NoValue before
    raised,      \* exception raised by the operation, NoValue before
    exit_code,   \* main: process exit code, -1 while running
    stderr,      \* main: lines printed to the error stream
    values,      \* resolve_existing_by_field: values
    existing,    \* resolve_existing_by_field: existing
    batch_no,    \* resolve_existing_by_field: chunk the loop is at
    creates,             \* create_tasks.main: creates
    skip_fields,         \* create_tasks.main: skip_fields
    existing_by_field,   \* create_tasks.main: existing_by_field
    existing_record_ids, \* create_tasks.main: existing_record_ids
    records,             \* create_tasks.main: records
    errors,              \* create_tasks.main: errors
    skipped,             \* create_tasks.main: skipped
    created,             \* create_tasks.main: created
    at,                  \* create_tasks.main: index the current loop is at
    fate,                \* create_tasks.main: what lines 581-603 did with each item
    outcomes,            \* create_tasks.main: how each remote call ended
    stdout,              \* create_tasks.main: the object printed, NoValue before
    arg,         \* argument of the function being applied
    result       \* what the function returned, NoValue before

fetchVars == <<page_size, limit, max_pages, items, page_token, pages, stop>>
resolveVars == <<values, existing, batch_no>>
writeVars == <<creates, skip_fields, existing_by_field, existing_record_ids, records,
               errors, skipped, created, at, fate, outcomes, stdout>>
callVars == <<arg, result>>
vars == <<pc, calls, responses, store, page_size, limit, max_pages, items,
          page_token, pages, stop, returned, raised, exit_code, stderr,
          values, existing, batch_no, creates, skip_fields, existing_by_field,
          existing_record_ids, records, errors, skipped, created, at, fate,
          outcomes, stdout, arg, result>>

----------------------------------------------------------------------------
(* Bounds of the model *)

\* most rows a single search response carries in the read path
MaxRows == 2
\* most search calls of one fetch: the store runs out of pages by then
MaxCalls == 3
\* largest limit argument tried
MaxLimit == 3
\* largest max_pages argument tried
MaxPagesArg == 2
\* most rows of the remote table the resolver looks into
MaxStoreRows == 3
\* longest list of hand-picked candidate values
MaxValues == 2
MaxItems == 2
MaxTableRows == 2
MaxArrayLen == 2

\* the lines of an output file
MaxLines == 2

\* the items of a batch of resolutions and the workers of its pool
MaxBatch == 3
MaxWorkers == 2

----------------------------------------------------------------------------
(* Program constants *)

DEFAULT_PAGE_SIZE == 200
MAX_PAGE_SIZE == 500
MAX_BATCH_SIZE == 500
MAX_FILTER_VALUES == 50

----------------------------------------------------------------------------
(* Text and values *)

NoValue == [t |-> "novalue"]

Null == [t |-> "null"]
Str(s) == [t |-> "str", v |-> s]
Num(n) == [t |-> "int", v |-> n]
Bool(b) == [t |-> "bool", v |-> b]
\* a float, held as its number of tenths: Float(35) is 3.5
Float(n) == [t |-> "float", v |-> n]
List(xs) == [t |-> "list", v |-> xs]
Dict(m) == [t |-> "dict", v |-> m]

Min(a, b) == IF a < b THEN a ELSE b
Max(a, b) == IF a > b THEN a ELSE b

\* str.strip() with no argument removes leading and trailing whitespace
IsSpace(c) == c \in {9, 10, 11, 12, 13, 32}

RECURSIVE LStrip(_)
LStrip(s) ==
    IF s # <<>> /\ IsSpace(Head(s)) THEN LStrip(Tail(s)) ELSE s

RECURSIVE RStrip(_)
RStrip(s) ==
    IF s # <<>> /\ IsSpace(s[Len(s)]) THEN RStrip(SubSeq(s, 1, Len(s) - 1)) ELSE s

Strip(s) == RStrip(LStrip(s))

\* Python truth value of a tagged value
Truthy(x) ==
    CASE x.t = "null" -> FALSE
      [] x.t = "bool" -> x.v
      [] x.t = "int" -> x.v # 0
      [] x.t = "float" -> x.v # 0
      [] x.t = "str" -> x.v # <<>>
      [] x.t = "list" -> x.v # <<>>
      [] x.t = "dict" -> x.v # <<>>
      [] OTHER -> TRUE

\* (x or "").strip() for x that is None or a str
StrOrEmpty(x) == IF Truthy(x) THEN Strip(x.v) ELSE <<>>

\* a dict is the sequence of its <<key, value>> pairs in insertion order
HasKey(d, key) == \E i \in 1..Len(d.v) : d.v[i][1] = key

\* d.get(key, default) and d.get(key)
GetOr(d, key, default) ==
    IF HasKey(d, key)
    THEN d.v[CHOOSE i \in 1..Len(d.v) : d.v[i][1] = key][2]
    ELSE default

Get(d, key) == GetOr(d, key, Null)

----------------------------------------------------------------------------
(* Cell values to text: fetch_tasks.py, lines 251-340 *)

\* str(n) of an integer
RECURSIVE Digits(_)
Digits(n) == IF n < 10 THEN <<48 + n>> ELSE Append(Digits(n \div 10), 48 + (n % 10))

DecimalText(n) == IF n < 0 THEN <<45>> \o Digits(0 - n) ELSE Digits(n)

\* float.is_integer() and int(x) of a float of n tenths
IsInteger(n) == n % 10 = 0

Trunc(n) == IF n < 0 THEN 0 - ((0 - n) \div 10) ELSE n \div 10

\* str(x) of a float of n tenths: "3.0", "3.5", "-0.5"
FloatText(n) ==
    (IF n < 0 THEN <<45>> ELSE <<>>)
    \o Digits((IF n < 0 THEN 0 - n ELSE n) \div 10)
    \o <<46, 48 + ((IF n < 0 THEN 0 - n ELSE n) % 10)>>

\* sep.join(parts)
RECURSIVE Join(_, _)
Join(parts, sep) ==
    IF parts = <<>> THEN <<>>
    ELSE IF Len(parts) = 1 THEN parts[1]
    ELSE parts[1] \o sep \o Join(Tail(parts), sep)

NonEmpty(parts) == SelectSeq(parts, LAMBDA p : p # <<>>)

\* the text of a dict key, for json.dumps
KeyText(k) ==
    CASE k = "text" -> <<116, 101, 120, 116>>
      [] k = "type" -> <<116, 121, 112, 101>>
      [] k = "value" -> <<118, 97, 108, 117, 101>>
      [] k = "k" -> <<107>>
      [] k = "cdn_url" -> <<99, 100, 110, 95, 117, 114, 108>>
      [] k = "a" -> <<97>>
      [] OTHER -> <<63>>

\* a str between double quotes, with " and \ escaped
RECURSIVE Escaped(_)
Escaped(str) ==
    IF str = <<>> THEN <<>>
    ELSE (IF Head(str) \in {34, 92} THEN <<92, Head(str)>> ELSE <<Head(str)>>)
         \o Escaped(Tail(str))

\* json.dumps(x, ensure_ascii=False)
RECURSIVE JsonDumps(_)
JsonDumps(x) ==
    CASE x.t = "null" -> <<110, 117, 108, 108>>
      [] x.t = "bool" -> IF x.v THEN <<116, 114, 117, 101>> ELSE <<102, 97, 108, 115, 101>>
      [] x.t = "int" -> DecimalText(x.v)
      [] x.t = "float" -> FloatText(x.v)
      [] x.t = "str" -> <<34>> \o Escaped(x.v) \o <<34>>
      [] x.t = "list" ->
            <<91>> \o Join([i \in 1..Len(x.v) |-> JsonDumps(x.v[i])], <<44, 32>>) \o <<93>>
      [] x.t = "dict" ->
            <<123>>
            \o Join([i \in 1..Len(x.v) |->
                        <<34>> \o KeyText(x.v[i][1]) \o <<34, 58, 32>> \o JsonDumps(x.v[i][2])],
                    <<44, 32>>)
            \o <<125>>

is_rich_text_array(xs) ==
    \E i \in 1..Len(xs) : xs[i].t = "dict" /\ HasKey(xs[i], "text")

RECURSIVE normalize_bitable_value(_)
RECURSIVE normalize_bitable_array(_)
RECURSIVE normalize_bitable_object(_)
RECURSIVE join_rich_text(_)

\* the text one element adds to a rich-text join, "" for none (lines 327-339)
RichTextPart(item) ==
    IF item.t = "dict"
    THEN LET text == Get(item, "text")
         IN IF text.t = "str" /\ Strip(text.v) # <<>>
            THEN Strip(text.v)
            ELSE normalize_bitable_value(Get(item, "value"))
    ELSE normalize_bitable_value(item)

\* mutant: rich-text runs are joined like any other array
join_rich_text_Comma(xs) ==
    Join(NonEmpty([i \in 1..Len(xs) |-> RichTextPart(xs[i])]), <<44>>)

join_rich_text(xs) ==
    Join(NonEmpty([i \in 1..Len(xs) |-> RichTextPart(xs[i])]), <<32>>)

normalize_bitable_array(xs) ==
    IF xs = <<>> THEN <<>>
    ELSE IF is_rich_text_array(xs) THEN join_rich_text(xs)
    ELSE Join(NonEmpty([i \in 1..Len(xs) |-> normalize_bitable_value(xs[i])]), <<44>>)

\* the first non-empty normalize(obj[key]) over the keys present, "" for none
RECURSIVE FirstPresentText(_, _)
FirstPresentText(obj, keys) ==
    IF keys = <<>> THEN <<>>
    ELSE LET text == IF HasKey(obj, Head(keys))
                     THEN normalize_bitable_value(Get(obj, Head(keys)))
                     ELSE <<>>
         IN IF text # <<>> THEN text ELSE FirstPresentText(obj, Tail(keys))

normalize_bitable_object(obj) ==
    LET nested == FirstPresentText(obj, <<"value", "values", "elements", "content">>)
        text == Get(obj, "text")
        named == FirstPresentText(obj, <<"link", "name", "en_name", "email", "id",
                                         "user_id", "url", "tmp_url", "file_token">>)
        place == NonEmpty([i \in 1..4 |->
                    normalize_bitable_value(
                        Get(obj, <<"location", "pname", "cityname", "adname">>[i]))])
    IN IF obj.v = <<>> THEN <<>>
       ELSE IF nested # <<>> THEN nested
       ELSE IF text.t = "str" /\ Strip(text.v) # <<>> THEN Strip(text.v)
       ELSE IF named # <<>> THEN named
       ELSE IF (\E k \in {"address", "location", "pname", "cityname", "adname"} :
                    HasKey(obj, k)) /\ place # <<>>
            THEN Join(place, <<44>>)
       ELSE JsonDumps(obj)

\* a bool is an int for isinstance, so it takes the int branch: str(True)
normalize_bitable_value(value) ==
    CASE value.t = "null" -> <<>>
      [] value.t = "str" -> Strip(value.v)
      [] value.t = "int" -> DecimalText(value.v)
      [] value.t = "float" ->
            IF IsInteger(value.v) THEN DecimalText(Trunc(value.v)) ELSE FloatText(value.v)
      [] value.t = "bool" ->
            IF value.v THEN <<84, 114, 117, 101>> ELSE <<70, 97, 108, 115, 101>>
      [] value.t = "list" -> normalize_bitable_array(value.v)
      [] value.t = "dict" -> normalize_bitable_object(value)

bitable_value_to_string(value) == Strip(normalize_bitable_value(value))

----------------------------------------------------------------------------
(* Read path: fetch_tasks.py *)

\* mutant: a size above the maximum is let through
clamp_page_size_NoCap(size) == IF size <= 0 THEN DEFAULT_PAGE_SIZE ELSE size

clamp_page_size(size) ==
    IF size <= 0 THEN DEFAULT_PAGE_SIZE
    ELSE IF size > MAX_PAGE_SIZE THEN MAX_PAGE_SIZE
    ELSE size

\* page_size after lines 199-201
EffectivePageSize(size, lim) ==
    LET clamped == clamp_page_size(size)
    IN IF lim > 0 /\ lim < clamped THEN lim ELSE clamped

\* mutant: the cursor is sent also while it is empty
SearchQuery_Always(size, token) == [page_size |-> size, page_token |-> token]

\* the query of one search call: page_token is sent only when non-empty
SearchQuery(size, token) ==
    IF token # <<>>
    THEN [page_size |-> size, page_token |-> token]
    ELSE [page_size |-> size]

\* mutant: the code is tested for truth, so an absent code passes as success
SearchFailed_TruthyCode(resp) == Truthy(resp.code)

\* resp.get("code") != 0
SearchFailed(resp) == resp.code # Num(0)

\* resp.get("data") or {}
RespData(resp) == IF Truthy(resp.data) THEN resp.data ELSE Dict(<<>>)

\* data.get("items") or []
RespItems(resp) ==
    LET got == Get(RespData(resp), "items")
    IN IF Truthy(got) THEN got.v ELSE <<>>

\* bool(data.get("has_more"))
RespHasMore(resp) == Truthy(Get(RespData(resp), "has_more"))

\* (data.get("page_token") or "").strip()
RespPageToken(resp) == StrOrEmpty(Get(RespData(resp), "page_token"))

LimitReached(n, lim) == lim > 0 /\ n >= lim

\* mutant: the accumulated rows are not cut to limit
Truncate_NoCut(rows, lim) == rows

Truncate(rows, lim) == SubSeq(rows, 1, lim)

\* mutant: the page budget is compared with > instead of >=
MaxPagesReached_OffByOne(p, mp) == mp > 0 /\ p > mp

MaxPagesReached(p, mp) == mp > 0 /\ p >= mp

\* mutant: the loop ends only when both signals say so
Exhausted_BothNeeded(has_more, token) == ~has_more /\ token = <<>>

Exhausted(has_more, token) == ~has_more \/ token = <<>>

\* mutant: has_more reports the store's own flag
FetchResult_StoreFlag(rows, has_more, token, p) ==
    [items |-> rows,
     page_info |-> [has_more |-> has_more, next_page_token |-> token, pages |-> p]]

\* the tuple returned at line 248
FetchResult(rows, has_more, token, p) ==
    [items |-> rows,
     page_info |-> [has_more |-> token # <<>>, next_page_token |-> token, pages |-> p]]

\* RuntimeError raised at lines 228-230
SearchError(resp) == [type |-> "RuntimeError", what |-> "search records failed",
                      code |-> resp.code, msg |-> resp.msg]

(* The remote store as the read path sees it: rows are numbered in store    *)
(* order, a page carries at most the requested number of rows, and the      *)
(* store runs out of pages after MaxCalls calls.                            *)
RowsFrom(n, k) == [i \in 1..k |-> n + i]

PageTokens == {Null, Str(<<>>), Str(<<97>>), Str(<<98>>), Str(<<32, 98>>)}
HasMoreFlags == {Null, Bool(TRUE), Bool(FALSE)}

RowsReceived ==
    LET RECURSIVE Cat(_)
        Cat(i) == IF i = 0 THEN <<>> ELSE Cat(i - 1) \o RespItems(responses[i])
    IN Cat(Len(responses))

OkResponses ==
    {[code |-> Num(0), msg |-> Str(<<>>), data |-> Null]}
    \cup
    {[code |-> Num(0), msg |-> Str(<<>>),
      data |-> Dict(<< <<"items", List(RowsFrom(Len(RowsReceived), k))>>,
                       <<"has_more", h>>, <<"page_token", tok>> >>)] :
        k \in 0..Min(page_size, MaxRows), h \in HasMoreFlags, tok \in PageTokens}

ErrorResponses ==
    {[code |-> c, msg |-> Str(<<101>>), data |-> Null] : c \in {Num(1254005), Null}}

Responses == OkResponses \cup ErrorResponses

\* an exception of the transport (urlopen, json.loads): not a RuntimeError
TransportError == [type |-> "URLError", what |-> "transport"]

FetchInit ==
    /\ pc = "fetch"
    /\ calls = <<>>
    /\ responses = <<>>
    /\ store = <<>>
    /\ page_size \in {-1, 0, 1, 2, 500, 501}
    /\ limit \in -1..MaxLimit
    /\ max_pages \in 0..MaxPagesArg
    /\ items = <<>>
    /\ page_token = <<>>
    /\ pages = 0
    /\ stop = "none"
    /\ returned = NoValue
    /\ raised = NoValue
    /\ exit_code = -1
    /\ stderr = <<>>
    /\ values = <<>>
    /\ existing = <<>>
    /\ batch_no = 0
    /\ creates = <<>>
    /\ skip_fields = <<>>
    /\ existing_by_field = <<>>
    /\ existing_record_ids = {}
    /\ records = <<>>
    /\ errors = <<>>
    /\ skipped = 0
    /\ created = 0
    /\ at = 0
    /\ fate = <<>>
    /\ outcomes = <<>>
    /\ stdout = NoValue
    /\ arg = NoValue
    /\ result = NoValue

\* fetch_records, lines 199-205
FetchBegin ==
    /\ pc = "fetch"
    /\ page_size' = EffectivePageSize(page_size, limit)
    /\ items' = <<>>
    /\ page_token' = <<>>
    /\ pages' = 0
    /\ pc' = "search"
    /\ UNCHANGED <<calls, responses, store, limit, max_pages, stop, returned,
                   raised, exit_code, stderr, resolveVars, writeVars, callVars>>

\* one iteration of the loop whose response is a success, lines 207-248
SearchOk ==
    /\ pc = "search"
    /\ \E resp \in Responses :
        LET has_more == RespHasMore(resp)
            token == RespPageToken(resp)
            rows == items \o RespItems(resp)
            p == pages + 1
            why == IF LimitReached(Len(rows), limit) THEN "limit"
                   ELSE IF MaxPagesReached(p, max_pages) THEN "max_pages"
                   ELSE IF Exhausted(has_more, token) THEN "exhausted"
                   ELSE "none"
            kept == IF why = "limit" THEN Truncate(rows, limit) ELSE rows
        IN /\ ~SearchFailed(resp)
           /\ (p < MaxCalls \/ ~has_more \/ token = <<>>)
           /\ calls' = Append(calls, SearchQuery(page_size, page_token))
           /\ responses' = Append(responses, resp)
           /\ items' = kept
           /\ pages' = p
           /\ page_token' = token
           /\ stop' = why
           /\ IF why = "none"
              THEN pc' = "search" /\ returned' = returned
              ELSE pc' = "returned" /\ returned' = FetchResult(kept, has_more, token, p)
    /\ UNCHANGED <<store, page_size, limit, max_pages, raised, exit_code, stderr,
                   resolveVars, writeVars, callVars>>

\* one iteration whose response carries a non-success code, lines 226-230
SearchFail ==
    /\ pc = "search"
    /\ \E resp \in Responses :
        /\ SearchFailed(resp)
        /\ calls' = Append(calls, SearchQuery(page_size, page_token))
        /\ responses' = Append(responses, resp)
        /\ raised' = SearchError(resp)
    /\ pc' = "raised"
    /\ UNCHANGED <<store, fetchVars, returned, exit_code, stderr, resolveVars, writeVars, callVars>>

\* main, lines 477-479: the RuntimeError of fetch_records is printed, exit 2
MainCatch ==
    /\ pc = "raised"
    /\ raised.type = "RuntimeError"
    /\ stderr' = Append(stderr, raised)
    /\ exit_code' = 2
    /\ pc' = "exit"
    /\ UNCHANGED <<calls, responses, store, fetchVars, returned, raised, resolveVars, writeVars, callVars>>

\* one iteration whose request fails in the transport, line 226 (124-134)
SearchTransportError ==
    /\ pc = "search"
    /\ calls' = Append(calls, SearchQuery(page_size, page_token))
    /\ raised' = TransportError
    /\ pc' = "raised"
    /\ UNCHANGED <<responses, store, fetchVars, returned, exit_code, stderr,
                   resolveVars, writeVars, callVars>>

\* main, lines 465-479: an exception that is no RuntimeError is not caught;
\* the interpreter prints the traceback and exits 1
MainUncaught ==
    /\ pc = "raised"
    /\ raised.type # "RuntimeError"
    /\ stderr' = Append(stderr, [type |-> "Traceback", what |-> raised.type])
    /\ exit_code' = 1
    /\ pc' = "exit"
    /\ UNCHANGED <<calls, responses, store, fetchVars, returned, raised, resolveVars, writeVars, callVars>>

FetchNext ==
    \/ FetchBegin
    \/ SearchOk
    \/ SearchFail
    \/ SearchTransportError
    \/ MainCatch
    \/ MainUncaught

SpecFetch == FetchInit /\ [][FetchNext]_vars

----------------------------------------------------------------------------
(* Existing-record resolver: create_tasks.py, lines 156-226 *)

\* mutant: each slice runs one element too far
chunked_Wide(vals, size) ==
    IF size <= 0 THEN <<vals>>
    ELSE [k \in 1..((Len(vals) + size - 1) \div size) |->
            SubSeq(vals, (k - 1) * size + 1, Min(k * size + 1, Len(vals)))]

\* [values[i : i + size] for i in range(0, len(values), size)]
chunked(vals, size) ==
    IF size <= 0 THEN <<vals>>
    ELSE [k \in 1..((Len(vals) + size - 1) \div size) |->
            SubSeq(vals, (k - 1) * size + 1, Min(k * size, Len(vals)))]

\* the values of build_id_filter's conditions: trimmed, non-empty, first
\* occurrences only, in order
RECURSIVE FilterValues(_, _)
FilterValues(vals, seen) ==
    IF vals = <<>> THEN <<>>
    ELSE LET value == Strip(Head(vals))
         IN IF value = <<>> \/ value \in seen
            THEN FilterValues(Tail(vals), seen)
            ELSE <<value>> \o FilterValues(Tail(vals), seen \cup {value})

build_id_filter(name, vals) ==
    LET conds == FilterValues(vals, {})
    IN IF name = "" \/ conds = <<>> THEN Null
       ELSE Dict(<< <<"conjunction", "or">>,
                    <<"conditions",
                      [i \in 1..Len(conds) |->
                          [field_name |-> name, operator |-> "is", value |-> conds[i]]]>> >>)

FilterConditions(filter_obj) == Get(filter_obj, "conditions")

\* page_size argument of line 218, clamped at line 186
LookupPageSize(batch) == clamp_page_size(Min(MAX_PAGE_SIZE, Max(Len(batch), 1)))

\* the search call of fetch_records (create_tasks.py, lines 186-192)
LookupCall(filter_obj, size) ==
    [op |-> "search", page_size |-> size, filter |-> filter_obj]

\* mutant: a later row with the same value takes the entry over
RECURSIVE ResolveRows_LastWins(_, _, _)
ResolveRows_LastWins(found, rows, name) ==
    IF rows = <<>> THEN found
    ELSE LET item == Head(rows)
             record_id == StrOrEmpty(Get(item, "record_id"))
             fields == Get(item, "fields")
             raw_fields == IF Truthy(fields) THEN fields ELSE Dict(<<>>)
             value == bitable_value_to_string(GetOr(raw_fields, name, Str(<<>>)))
         IN ResolveRows_LastWins(IF record_id # <<>> /\ value # <<>>
                                 THEN (value :> record_id) @@ found
                                 ELSE found,
                                 Tail(rows), name)

\* lines 220-225: the rows of one response folded into existing
RECURSIVE ResolveRows(_, _, _)
ResolveRows(found, rows, name) ==
    IF rows = <<>> THEN found
    ELSE LET item == Head(rows)
             record_id == StrOrEmpty(Get(item, "record_id"))
             fields == Get(item, "fields")
             raw_fields == IF Truthy(fields) THEN fields ELSE Dict(<<>>)
             value == bitable_value_to_string(GetOr(raw_fields, name, Str(<<>>)))
         IN ResolveRows(IF record_id # <<>> /\ value # <<>> /\ value \notin DOMAIN found
                        THEN found @@ (value :> record_id)
                        ELSE found,
                        Tail(rows), name)

(* The remote table as the resolver sees it.  A search answers with the    *)
(* first page of the rows whose cell text is one of the filter's values:   *)
(* at most page_size rows, in store order, has_more telling of the rest.   *)
RecordId(i) == <<114, 48 + i>>

Row(id, name, cell) ==
    Dict(<< <<"record_id", Str(id)>>, <<"fields", Dict(<< <<name, cell>> >>)>> >>)

CellText(row, name) == bitable_value_to_string(Get(Get(row, "fields"), name))

RowMatches(row, filter_obj) ==
    \E i \in 1..Len(FilterConditions(filter_obj)) :
        LET cond == FilterConditions(filter_obj)[i]
        IN CellText(row, cond.field_name) = cond.value

StorePage(rows, filter_obj, size) ==
    LET hits == SelectSeq(rows, LAMBDA r : RowMatches(r, filter_obj))
    IN [code |-> Num(0), msg |-> Str(<<>>),
        data |-> Dict(<< <<"items", List(SubSeq(hits, 1, Min(size, Len(hits))))>>,
                         <<"has_more", Bool(Len(hits) > size)>>,
                         <<"page_token", IF Len(hits) > size THEN Str(<<97>>) ELSE Str(<<>>)>> >>)]

ResolveField == "BizTaskID"

\* the i-th of a run of distinct candidate values
BulkValue(i) == <<1000 + i>>

RichText(str) ==
    List(<<Dict(<< <<"text", Str(str)>>, <<"type", Str(<<116, 101, 120, 116>>)>> >>)>>)

\* the cells a row may hold in the resolved field
StoreCells == {Str(<<97>>), Str(<<98>>), RichText(<<97>>), Str(BulkValue(51))}

\* a row the store hands out without a record id
RowNoId(name, cell) ==
    Dict(<< <<"record_id", Null>>, <<"fields", Dict(<< <<name, cell>> >>)>> >>)

\* the kinds of row: with a record id and any of the cells, or without one
StoreRowKinds == {<<TRUE, c>> : c \in StoreCells} \cup {<<FALSE, Str(<<97>>)>>}

\* the i-th row of a table has record id "r<i>", if it has one
Stores(name) ==
    UNION {{[i \in 1..n |-> IF kinds[i][1] THEN Row(RecordId(i), name, kinds[i][2])
                                           ELSE RowNoId(name, kinds[i][2])] :
            kinds \in [1..n -> StoreRowKinds]} : n \in 0..MaxStoreRows}

ValueLists ==
    UNION {[1..n -> {<<97>>, <<98>>, <<>>}] : n \in 0..MaxValues}
    \cup {[i \in 1..n |-> BulkValue(i)] : n \in {50, 51, 100, 120}}

ResolveInit ==
    /\ pc = "resolve"
    /\ calls = <<>>
    /\ responses = <<>>
    /\ store \in Stores(ResolveField)
    /\ page_size = 0
    /\ limit = 0
    /\ max_pages = 0
    /\ items = <<>>
    /\ page_token = <<>>
    /\ pages = 0
    /\ stop = "none"
    /\ returned = NoValue
    /\ raised = NoValue
    /\ exit_code = -1
    /\ stderr = <<>>
    /\ values \in ValueLists
    /\ existing = <<>>
    /\ batch_no = 0
    /\ creates = <<>>
    /\ skip_fields = <<>>
    /\ existing_by_field = <<>>
    /\ existing_record_ids = {}
    /\ records = <<>>
    /\ errors = <<>>
    /\ skipped = 0
    /\ created = 0
    /\ at = 0
    /\ fate = <<>>
    /\ outcomes = <<>>
    /\ stdout = NoValue
    /\ arg = NoValue
    /\ result = NoValue

Batches == chunked(values, MAX_FILTER_VALUES)

\* where the loop of line 209 goes after chunk k, with existing as it is then
AfterBatch(k, found) ==
    IF k < Len(Batches)
    THEN pc' = "batch" /\ batch_no' = k + 1 /\ returned' = returned
    ELSE pc' = "returned" /\ batch_no' = k /\ returned' = found

\* lines 206-208
ResolveBegin ==
    /\ pc = "resolve"
    /\ existing' = <<>>
    /\ IF values = <<>>
       THEN pc' = "returned" /\ batch_no' = 0 /\ returned' = <<>>
       ELSE pc' = "batch" /\ batch_no' = 1 /\ returned' = returned
    /\ UNCHANGED <<calls, responses, store, fetchVars, raised, exit_code, stderr, values, writeVars, callVars>>

\* lines 210-212: a chunk with no usable value issues no call
BatchSkipped ==
    /\ pc = "batch"
    /\ build_id_filter(ResolveField, Batches[batch_no]) = Null
    /\ AfterBatch(batch_no, existing)
    /\ UNCHANGED <<calls, responses, store, fetchVars, raised, exit_code, stderr,
                   values, existing, writeVars, callVars>>

\* lines 210-225: one search, its rows recorded
BatchSearched ==
    /\ pc = "batch"
    /\ LET batch == Batches[batch_no]
           filter_obj == build_id_filter(ResolveField, batch)
           size == LookupPageSize(batch)
       IN /\ filter_obj # Null
          /\ LET resp == StorePage(store, filter_obj, size)
                 found == ResolveRows(existing, RespItems(resp), ResolveField)
             IN /\ calls' = Append(calls, LookupCall(filter_obj, size))
                /\ responses' = Append(responses, resp)
                /\ existing' = found
                /\ AfterBatch(batch_no, found)
    /\ UNCHANGED <<store, fetchVars, raised, exit_code, stderr, values, writeVars, callVars>>

\* lines 192-194: the search answers with a non-success code
BatchSearchFail ==
    /\ pc = "batch"
    /\ LET batch == Batches[batch_no]
           filter_obj == build_id_filter(ResolveField, batch)
       IN /\ filter_obj # Null
          /\ \E resp \in ErrorResponses :
                /\ calls' = Append(calls, LookupCall(filter_obj, LookupPageSize(batch)))
                /\ responses' = Append(responses, resp)
                /\ raised' = SearchError(resp)
    /\ pc' = "raised"
    /\ UNCHANGED <<store, fetchVars, returned, exit_code, stderr, resolveVars, writeVars, callVars>>

\* line 192: the request fails in the transport
BatchTransportError ==
    /\ pc = "batch"
    /\ LET batch == Batches[batch_no]
           filter_obj == build_id_filter(ResolveField, batch)
       IN /\ filter_obj # Null
          /\ calls' = Append(calls, LookupCall(filter_obj, LookupPageSize(batch)))
    /\ raised' = TransportError
    /\ pc' = "raised"
    /\ UNCHANGED <<responses, store, fetchVars, returned, exit_code, stderr, resolveVars, writeVars, callVars>>

ResolveNext ==
    \/ ResolveBegin
    \/ BatchSkipped
    \/ BatchSearched
    \/ BatchSearchFail
    \/ BatchTransportError

SpecResolve == ResolveInit /\ [][ResolveNext]_vars

----------------------------------------------------------------------------
(* Write path: create_tasks.py *)

\* item.get(key) on a creation item, a record of the keys it carries
ItemGet(item, key) == IF key \in DOMAIN item THEN item[key] ELSE Null

\* (item.get(key) or "").strip()
ItemText(item, key) == StrOrEmpty(ItemGet(item, key))

\* d[key] = value on a dict
DictSet(d, key, value) ==
    IF HasKey(d, key)
    THEN Dict([i \in 1..Len(d.v) |-> IF d.v[i][1] = key THEN <<key, value>> ELSE d.v[i]])
    ELSE Dict(Append(d.v, <<key, value>>))

\* fields_map of load_task_fields_from_env with no override: the identity
fields_map(name) == name

APP_GROUP_LABELS(app) ==
    IF app = <<99, 111, 109, 46, 115, 109, 105, 108, 101, 46,
               103, 105, 102, 109, 97, 107, 101, 114>>
    THEN <<24555, 25163>>
    ELSE app

\* the integer a text in decimal digits with an optional sign denotes, Null
\* for any other text
IntegerOfText(text) ==
    LET s == Strip(text)
        signed == s # <<>> /\ s[1] \in {43, 45}
        body == IF signed THEN Tail(s) ELSE s
        RECURSIVE Value(_)
        Value(d) == IF d = <<>> THEN 0
                    ELSE 10 * Value(SubSeq(d, 1, Len(d) - 1)) + (d[Len(d)] - 48)
    IN IF body = <<>> \/ \E i \in 1..Len(body) : body[i] \notin 48..57 THEN Null
       ELSE Num(IF signed /\ s[1] = 45 THEN 0 - Value(body) ELSE Value(body))

(* common.coerce_int: an integer, an integral float or a numeric text gives *)
(* the integer, any other shape gives None.                                 *)
coerce_int(value) ==
    IF value.t = "int" THEN value
    ELSE IF value.t = "float" /\ IsInteger(value.v) THEN Num(Trunc(value.v))
    ELSE IF value.t = "str" THEN IntegerOfText(value.v)
    ELSE Null

(* common.coerce_millis on the shapes of this model: an epoch-millisecond   *)
(* integer, or its decimal text as the command line passes it, gives the    *)
(* integer; None and any other text give None.  Epoch seconds, ISO-8601     *)
(* texts and "now" are not among the items of the model.                    *)
coerce_millis(value) ==
    IF value.t = "int" THEN value
    ELSE IF value.t = "str" THEN IntegerOfText(value.v)
    ELSE Null

\* int(a / b) for b > 0: the quotient truncated toward zero
TruncDiv(a, b) == IF a < 0 THEN 0 - ((0 - a) \div b) ELSE a \div b

\* mutant: the difference is not held at zero
elapsed_between_Signed(start_ms, end_ms) == TruncDiv(end_ms - start_ms, 1000)

\* max(0, int((end_ms - start_ms) / 1000)), line 102
elapsed_between(start_ms, end_ms) ==
    IF TruncDiv(end_ms - start_ms, 1000) < 0 THEN 0 ELSE TruncDiv(end_ms - start_ms, 1000)

\* the text columns of build_create_fields in the order they are written
TextColumns ==
    << <<"biz_task_id", "BizTaskID">>, <<"parent_task_id", "ParentTaskID">>,
       <<"app", "App">>, <<"scene", "Scene">>, <<"params", "Params">>,
       <<"item_id", "ItemID">>, <<"book_id", "BookID">>, <<"url", "URL">>,
       <<"user_id", "UserID">>, <<"user_name", "UserName">>, <<"status", "Status">>,
       <<"logs", "Logs">>, <<"last_screenshot", "LastScreenShot">>,
       <<"group_id", "GroupID">> >>

RECURSIVE PutTexts(_, _, _)
PutTexts(fields, item, cols) ==
    IF cols = <<>> THEN fields
    ELSE LET value == ItemText(item, Head(cols)[1])
             column == fields_map(Head(cols)[2])
         IN PutTexts(IF value # <<>> /\ column # ""
                     THEN DictSet(fields, column, Str(value))
                     ELSE fields,
                     item, Tail(cols))

(* common.normalize_extra, the "JSON-or-object coercion": None gives "", a   *)
(* text gives the text trimmed, an object gives its JSON text.              *)
normalize_extra(extra) ==
    IF extra.t = "null" THEN <<>>
    ELSE IF extra.t = "str" THEN Strip(extra.v)
    ELSE JsonDumps(extra)

\* lines 116-118: the Extra column is written
ExtraEmitted(extra, force_extra) ==
    /\ fields_map("Extra") # "" /\ extra # Null
    /\ normalize_extra(extra) # <<>> \/ force_extra

\* lines 121-125: the entries of the override are written last
RECURSIVE PutOverrides(_, _)
PutOverrides(fields, pairs) ==
    IF pairs = <<>> THEN fields
    ELSE PutOverrides(IF Head(pairs)[1] # "" /\ Head(pairs)[2] # Null
                      THEN DictSet(fields, Head(pairs)[1], Head(pairs)[2])
                      ELSE fields,
                      Tail(pairs))

\* "if <condition>: fields[column] = value", the shape of lines 36-119
PutWhen(condition, fields, column, value) ==
    IF condition /\ column # "" THEN DictSet(fields, column, value) ELSE fields

(* build_create_fields, lines 23-127, but for date (lines 68-72) and the    *)
(* two counters (lines 106-112), which the items of this model do not       *)
(* carry.                                                                   *)
build_create_fields(item) ==
    LET texts == PutTexts(Dict(<<>>), item, TextColumns)
        app_value == ItemText(item, "app")
        book_id_value == ItemText(item, "book_id")
        user_id_value == ItemText(item, "user_id")
        grouped ==
            PutWhen(/\ ItemText(item, "group_id") = <<>>
                    /\ app_value # <<>> /\ book_id_value # <<>> /\ user_id_value # <<>>,
                    texts, fields_map("GroupID"),
                    Str(APP_GROUP_LABELS(app_value) \o <<95>> \o book_id_value
                        \o <<95>> \o user_id_value))
        device_serial == ItemText(item, "device_serial")
        with_serial ==
            PutWhen(device_serial # <<>>, grouped, fields_map("DeviceSerial"),
                    Str(device_serial))
        dispatched_device ==
            IF ItemText(item, "dispatched_device") # <<>>
            THEN ItemText(item, "dispatched_device")
            ELSE device_serial
        with_device ==
            PutWhen(dispatched_device # <<>>, with_serial, fields_map("DispatchedDevice"),
                    Str(dispatched_device))
        dispatched_ms == coerce_millis(ItemGet(item, "dispatched_at"))
        start_at == coerce_millis(ItemGet(item, "start_at"))
        with_dispatched ==
            PutWhen(dispatched_ms # Null, with_device, fields_map("DispatchedAt"),
                    dispatched_ms)
        start_ms == IF start_at = Null /\ dispatched_ms # Null THEN dispatched_ms ELSE start_at
        with_start ==
            PutWhen(start_ms # Null, with_dispatched, fields_map("StartAt"), start_ms)
        completed_ms == coerce_millis(ItemGet(item, "completed_at"))
        end_ms == IF completed_ms # Null THEN completed_ms
                  ELSE coerce_millis(ItemGet(item, "end_at"))
        with_end ==
            PutWhen(end_ms # Null, with_start, fields_map("EndAt"), end_ms)
        supplied == coerce_int(ItemGet(item, "elapsed_seconds"))
        elapsed ==
            IF supplied = Null /\ start_ms # Null /\ end_ms # Null
            THEN Num(elapsed_between(start_ms.v, end_ms.v))
            ELSE supplied
        with_elapsed ==
            PutWhen(elapsed # Null, with_end, fields_map("ElapsedSeconds"), elapsed)
        extra == ItemGet(item, "extra")
        force_extra == Truthy(ItemGet(item, "force_extra"))
        with_extra ==
            PutWhen(ExtraEmitted(extra, force_extra), with_elapsed, fields_map("Extra"),
                    Str(normalize_extra(extra)))
        extra_fields == ItemGet(item, "fields")
    IN PutOverrides(with_extra, IF extra_fields.t = "dict" THEN extra_fields.v ELSE <<>>)

\* extract_item_value, lines 282-295 (TaskID is no skip field of this model)
extract_item_value(item, name) ==
    CASE name = "BizTaskID" -> ItemText(item, "biz_task_id")
      [] name = "RecordID" -> ItemText(item, "record_id")
      [] name = "BookID" -> ItemText(item, "book_id")
      [] name = "UserID" -> ItemText(item, "user_id")
      [] name = "App" -> ItemText(item, "app")
      [] name = "Scene" -> ItemText(item, "scene")
      [] OTHER -> bitable_value_to_string(ItemGet(item, name))

\* field_map of line 558 applied as at line 572
MappedField(name) == fields_map(name)

\* existing_by_field is kept as one entry per field, in insertion order:
\* the candidate values in the order met, and, once resolved, the mapping
FieldAt(name) == CHOOSE i \in 1..Len(existing_by_field) : existing_by_field[i].field = name

HasField(by_field, name) == \E i \in 1..Len(by_field) : by_field[i].field = name

\* existing_by_field.setdefault(field_name, {})[value] = ""
AddCandidate(by_field, name, value) ==
    IF HasField(by_field, name)
    THEN [i \in 1..Len(by_field) |->
            IF by_field[i].field = name
               /\ \A j \in 1..Len(by_field[i].values) : by_field[i].values[j] # value
            THEN [by_field[i] EXCEPT !.values = Append(@, value)]
            ELSE by_field[i]]
    ELSE Append(by_field, [field |-> name, values |-> <<value>>, found |-> <<>>])

\* lines 560-570 for one item, the probe of RecordID apart
RECURSIVE CollectValues(_, _, _)
CollectValues(by_field, item, names) ==
    IF names = <<>> THEN by_field
    ELSE LET name == Head(names)
             value == extract_item_value(item, name)
         IN CollectValues(IF name # "RecordID" /\ value # <<>>
                          THEN AddCandidate(by_field, name, value)
                          ELSE by_field,
                          item, Tail(names))

InSeq(x, names) == \E i \in 1..Len(names) : names[i] = x

\* lines 561-563: the item's record id is probed
NeedsProbe(item, ids) ==
    /\ InSeq("RecordID", skip_fields)
    /\ ItemText(item, "record_id") # <<>>
    /\ ItemText(item, "record_id") \notin ids

\* the GET of record_exists and the table's answer to it
ProbeCall(record_id) == [op |-> "get", record_id |-> record_id]

ProbeResponse(rows, record_id) ==
    IF \E i \in 1..Len(rows) : StrOrEmpty(Get(rows[i], "record_id")) = record_id
    THEN [code |-> Num(0), msg |-> Str(<<>>), data |-> Null]
    ELSE [code |-> Num(1254043), msg |-> Str(<<101>>), data |-> Null]

\* mutant: any answer counts as found
ProbeFound_AnyAnswer(resp) == resp.code \in {Num(0), Num(1254005), Num(1254043), Null}

\* record_exists, line 241
ProbeFound(resp) == resp.code = Num(0)

\* the searches of resolve_existing_by_field over values: one for each chunk
\* that has a filter
Lookups(vals, name) ==
    LET all == [k \in 1..Len(chunked(vals, MAX_FILTER_VALUES)) |->
                    [filter |-> build_id_filter(name, chunked(vals, MAX_FILTER_VALUES)[k]),
                     size |-> LookupPageSize(chunked(vals, MAX_FILTER_VALUES)[k])]]
    IN SelectSeq(all, LAMBDA l : l.filter # Null)

\* resolve_existing_by_field over the first n searches
RECURSIVE ResolveLookups(_, _, _, _)
ResolveLookups(lookups, n, rows, name) ==
    IF n = 0 THEN <<>>
    ELSE ResolveRows(ResolveLookups(lookups, n - 1, rows, name),
                     RespItems(StorePage(rows, lookups[n].filter, lookups[n].size)),
                     name)

\* lines 583-594: every listed skip field of the item has a match
all_match(item) ==
    \A i \in 1..Len(skip_fields) :
        LET name == skip_fields[i]
            value == extract_item_value(item, name)
        IN IF name = "RecordID"
           THEN value # <<>> /\ value \in existing_record_ids
           ELSE /\ value # <<>>
                /\ HasField(existing_by_field, name)
                /\ value \in DOMAIN existing_by_field[FieldAt(name)].found

\* lines 582-603: what becomes of one item
FateOf(item) ==
    IF skip_fields # <<>> /\ all_match(item) THEN "skipped"
    ELSE IF build_create_fields(item).v = <<>> THEN "no_fields"
    ELSE "create"

Count(fates, what) == Cardinality({i \in 1..Len(fates) : fates[i] = what})

\* an entry of errors: the text of line 600, or str(exc) of line 617
NoFieldsError == [what |-> "task: no fields to create", code |-> Null, msg |-> Null]

\* str() of the RuntimeError raised at lines 138-140 and 151-153
CreateError(what, resp) == [what |-> what, code |-> resp.code, msg |-> resp.msg]

\* mutant: a chunk runs one record too far
BatchAt_Wide(recs, idx) ==
    SubSeq(recs, idx + 1, Min(idx + MAX_BATCH_SIZE + 1, Len(recs)))

\* records[idx : idx + MAX_BATCH_SIZE]
BatchAt(recs, idx) == SubSeq(recs, idx + 1, Min(idx + MAX_BATCH_SIZE, Len(recs)))

CreateCall(fields) == [op |-> "create", fields |-> fields]

BatchCreateCall(batch) == [op |-> "batch_create", records |-> batch]

\* the object printed at lines 620-628, the wall-clock elapsed_seconds apart
ResultPayload ==
    [created |-> created, requested |-> Len(records), skipped |-> skipped,
     failed |-> Len(errors), errors |-> errors]

\* the table of tasks: row i has record id "r<i>" and two text cells
TaskRow(id, book, user) ==
    Dict(<< <<"record_id", Str(id)>>,
            <<"fields", Dict(<< <<"BookID", Str(book)>>, <<"UserID", Str(user)>> >>)>> >>)

TaskCells == {<< <<97>>, <<97>> >>, << <<97>>, <<98>> >>, << <<98>>, <<97>> >>}

TaskStores ==
    UNION {{[i \in 1..n |-> TaskRow(RecordId(i), cells[i][1], cells[i][2])] :
            cells \in [1..n -> TaskCells]} : n \in 0..MaxTableRows}

\* the items load_creates hands to main
ItemKinds ==
    {[book_id |-> Str(<<97>>), user_id |-> Str(<<97>>)],
     [book_id |-> Str(<<97>>)],
     [book_id |-> Str(<<32>>)],
     [book_id |-> Str(<<97>>), user_id |-> Str(<<97>>), record_id |-> Str(RecordId(1))]}

ItemLists == UNION {[1..n -> ItemKinds] : n \in 1..MaxItems}

\* a run of n items, each with a book of its own
BulkItems(n) == [i \in 1..n |-> [book_id |-> Str(BulkValue(i))]]

BulkSizes == {MAX_BATCH_SIZE, MAX_BATCH_SIZE + 1, 2 * MAX_BATCH_SIZE,
              2 * MAX_BATCH_SIZE + 1, 2 * MAX_BATCH_SIZE + 200}

\* normalize_skip_fields of the --skip-existing values used here
SkipFieldLists ==
    {<<>>, <<"BookID">>, <<"BookID", "UserID">>, <<"RecordID">>, <<"RecordID", "BookID">>}

WriteIdle ==
    /\ page_size = 0 /\ limit = 0 /\ max_pages = 0
    /\ items = <<>> /\ page_token = <<>> /\ pages = 0 /\ stop = "none"
    /\ values = <<>> /\ existing = <<>> /\ batch_no = 0
    /\ responses = <<>>

\* main at line 550, configuration passed
WriteInit ==
    /\ pc = "main"
    /\ calls = <<>>
    /\ outcomes = <<>>
    /\ \/ /\ creates \in ItemLists
          /\ skip_fields \in SkipFieldLists
          /\ store \in TaskStores
       \/ /\ creates \in {BulkItems(n) : n \in BulkSizes}
          /\ skip_fields = <<>>
          /\ store = <<>>
    /\ existing_by_field = <<>>
    /\ existing_record_ids = {}
    /\ records = <<>>
    /\ errors = <<>>
    /\ skipped = 0
    /\ created = 0
    /\ at = 0
    /\ fate = <<>>
    /\ stdout = NoValue
    /\ arg = NoValue
    /\ result = NoValue
    /\ returned = NoValue
    /\ raised = NoValue
    /\ exit_code = -1
    /\ stderr = <<>>
    /\ WriteIdle

\* what no step of main touches
writeFrame == <<responses, store, fetchVars, returned, resolveVars, creates, skip_fields,
                callVars>>

\* lines 550-557
WriteBegin ==
    /\ pc = "main"
    /\ records' = <<>> /\ errors' = <<>> /\ skipped' = 0
    /\ existing_by_field' = <<>> /\ existing_record_ids' = {}
    /\ IF skip_fields # <<>>
       THEN pc' = "collect" /\ at' = 1
       ELSE pc' = "partition" /\ at' = 0
    /\ UNCHANGED <<calls, outcomes, created, fate, stdout, raised, exit_code, stderr, writeFrame>>

\* where the loop of line 559 goes after item i
AfterCollect(i) ==
    IF i < Len(creates)
    THEN pc' = "collect" /\ at' = i + 1
    ELSE /\ at' = 1
         /\ pc' = IF existing_by_field' = <<>> THEN "partition" ELSE "resolve"

\* lines 559-570 for an item whose record id is not probed
CollectItem ==
    /\ pc = "collect"
    /\ ~NeedsProbe(creates[at], existing_record_ids)
    /\ existing_by_field' = CollectValues(existing_by_field, creates[at], skip_fields)
    /\ AfterCollect(at)
    /\ UNCHANGED <<calls, outcomes, existing_record_ids, records, errors, skipped, created,
                   fate, stdout, raised, exit_code, stderr, writeFrame>>

\* lines 559-570 and 229-241: the record id is probed and the table answers
CollectItemProbed ==
    /\ pc = "collect"
    /\ NeedsProbe(creates[at], existing_record_ids)
    /\ LET record_id == ItemText(creates[at], "record_id")
           resp == ProbeResponse(store, record_id)
       IN /\ calls' = Append(calls, ProbeCall(record_id))
          /\ outcomes' = Append(outcomes, IF ProbeFound(resp) THEN "ok" ELSE "failed")
          /\ existing_record_ids' =
                IF ProbeFound(resp) THEN existing_record_ids \cup {record_id}
                ELSE existing_record_ids
    /\ existing_by_field' = CollectValues(existing_by_field, creates[at], skip_fields)
    /\ AfterCollect(at)
    /\ UNCHANGED <<records, errors, skipped, created, fate, stdout, raised, exit_code,
                   stderr, writeFrame>>

\* lines 237-240: the probe fails in the transport and counts as absent
CollectItemProbeError ==
    /\ pc = "collect"
    /\ NeedsProbe(creates[at], existing_record_ids)
    /\ calls' = Append(calls, ProbeCall(ItemText(creates[at], "record_id")))
    /\ outcomes' = Append(outcomes, "transport")
    /\ existing_by_field' = CollectValues(existing_by_field, creates[at], skip_fields)
    /\ AfterCollect(at)
    /\ UNCHANGED <<existing_record_ids, records, errors, skipped, created, fate, stdout,
                   raised, exit_code, stderr, writeFrame>>

\* the searches of resolve_existing_by_field for the field main is at
FieldLookups ==
    Lookups(existing_by_field[at].values, MappedField(existing_by_field[at].field))

LookupCalls(lookups, n) == [k \in 1..n |-> LookupCall(lookups[k].filter, lookups[k].size)]

Repeat(x, n) == [k \in 1..n |-> x]

\* lines 571-580 for one field: every search of the resolver answers
ResolveFieldDone ==
    /\ pc = "resolve"
    /\ LET lookups == FieldLookups
           n == Len(lookups)
           found == ResolveLookups(lookups, n, store, MappedField(existing_by_field[at].field))
       IN /\ calls' = calls \o LookupCalls(lookups, n)
          /\ outcomes' = outcomes \o Repeat("ok", n)
          /\ existing_by_field' = [existing_by_field EXCEPT ![at].found = found]
    /\ IF at < Len(existing_by_field)
       THEN pc' = "resolve" /\ at' = at + 1
       ELSE pc' = "partition" /\ at' = 0
    /\ UNCHANGED <<existing_record_ids, records, errors, skipped, created, fate, stdout,
                   raised, exit_code, stderr, writeFrame>>

\* lines 193-194 under line 574: a search answers with a non-success code
ResolveFieldFailed ==
    /\ pc = "resolve"
    /\ \E n \in 1..Len(FieldLookups), resp \in ErrorResponses :
          /\ calls' = calls \o LookupCalls(FieldLookups, n)
          /\ outcomes' = outcomes \o Repeat("ok", n - 1) \o <<"failed">>
          /\ raised' = SearchError(resp)
    /\ pc' = "raised"
    /\ UNCHANGED <<existing_by_field, existing_record_ids, records, errors, skipped, created,
                   at, fate, stdout, exit_code, stderr, writeFrame>>

\* line 192 under line 574: a search fails in the transport
ResolveFieldTransportError ==
    /\ pc = "resolve"
    /\ \E n \in 1..Len(FieldLookups) :
          /\ calls' = calls \o LookupCalls(FieldLookups, n)
          /\ outcomes' = outcomes \o Repeat("ok", n - 1) \o <<"transport">>
    /\ raised' = TransportError
    /\ pc' = "raised"
    /\ UNCHANGED <<existing_by_field, existing_record_ids, records, errors, skipped, created,
                   at, fate, stdout, exit_code, stderr, writeFrame>>

\* mutant: an item without fields is reported and appended all the same
Partition_NoContinue ==
    /\ pc = "partition"
    /\ fate' = [i \in 1..Len(creates) |-> FateOf(creates[i])]
    /\ skipped' = Count(fate', "skipped")
    /\ errors' = Repeat(NoFieldsError, Count(fate', "no_fields"))
    /\ records' = LET kept == SelectSeq(creates, LAMBDA item : FateOf(item) # "skipped")
                   IN [k \in 1..Len(kept) |->
                          Dict(<< <<"fields", build_create_fields(kept[k])>> >>)]
    /\ created' = 0
    /\ at' = 0
    /\ pc' = "create"
    /\ UNCHANGED <<calls, outcomes, existing_by_field, existing_record_ids, stdout, raised,
                   exit_code, stderr, writeFrame>>

\* lines 581-606: the items are parted, no call is made
Partition ==
    /\ pc = "partition"
    /\ fate' = [i \in 1..Len(creates) |-> FateOf(creates[i])]
    /\ skipped' = Count(fate', "skipped")
    /\ errors' = Repeat(NoFieldsError, Count(fate', "no_fields"))
    /\ records' = LET kept == SelectSeq(creates, LAMBDA item : FateOf(item) = "create")
                   IN [k \in 1..Len(kept) |->
                          Dict(<< <<"fields", build_create_fields(kept[k])>> >>)]
    /\ created' = 0
    /\ at' = 0
    /\ pc' = "create"
    /\ UNCHANGED <<calls, outcomes, existing_by_field, existing_record_ids, stdout, raised,
                   exit_code, stderr, writeFrame>>

createFrame == <<existing_by_field, existing_record_ids, records, skipped, fate, stdout,
                 exit_code, stderr, writeFrame>>

\* lines 608-610: the one record is created
CreateSingleOk ==
    /\ pc = "create"
    /\ Len(records) = 1
    /\ calls' = Append(calls, CreateCall(Get(records[1], "fields")))
    /\ outcomes' = Append(outcomes, "ok")
    /\ created' = 1
    /\ pc' = "report"
    /\ UNCHANGED <<errors, at, raised, createFrame>>

\* lines 151-153 and 616-617: the create answers with a non-success code
CreateSingleFailed ==
    /\ pc = "create"
    /\ Len(records) = 1
    /\ \E resp \in ErrorResponses :
          errors' = Append(errors, CreateError("create record failed", resp))
    /\ calls' = Append(calls, CreateCall(Get(records[1], "fields")))
    /\ outcomes' = Append(outcomes, "failed")
    /\ pc' = "report"
    /\ UNCHANGED <<created, at, raised, createFrame>>

\* line 150: the create fails in the transport, which line 616 does not catch
CreateSingleTransportError ==
    /\ pc = "create"
    /\ Len(records) = 1
    /\ calls' = Append(calls, CreateCall(Get(records[1], "fields")))
    /\ outcomes' = Append(outcomes, "transport")
    /\ raised' = TransportError
    /\ pc' = "raised"
    /\ UNCHANGED <<errors, created, at, createFrame>>

\* lines 612-615: one chunk is created
BatchCreateOk ==
    /\ pc = "create"
    /\ Len(records) # 1
    /\ at < Len(records)
    /\ calls' = Append(calls, BatchCreateCall(BatchAt(records, at)))
    /\ outcomes' = Append(outcomes, "ok")
    /\ created' = created + Len(BatchAt(records, at))
    /\ at' = at + MAX_BATCH_SIZE
    /\ UNCHANGED <<pc, errors, raised, createFrame>>

\* lines 138-140 and 616-617: a chunk answers with a non-success code
BatchCreateFailed ==
    /\ pc = "create"
    /\ Len(records) # 1
    /\ at < Len(records)
    /\ \E resp \in ErrorResponses :
          errors' = Append(errors, CreateError("batch create failed", resp))
    /\ calls' = Append(calls, BatchCreateCall(BatchAt(records, at)))
    /\ outcomes' = Append(outcomes, "failed")
    /\ pc' = "report"
    /\ UNCHANGED <<created, at, raised, createFrame>>

\* line 137: a chunk fails in the transport, which line 616 does not catch
BatchCreateTransportError ==
    /\ pc = "create"
    /\ Len(records) # 1
    /\ at < Len(records)
    /\ calls' = Append(calls, BatchCreateCall(BatchAt(records, at)))
    /\ outcomes' = Append(outcomes, "transport")
    /\ raised' = TransportError
    /\ pc' = "raised"
    /\ UNCHANGED <<errors, created, at, createFrame>>

\* line 612: the range of the loop is used up
BatchLoopEnd ==
    /\ pc = "create"
    /\ Len(records) # 1
    /\ at >= Len(records)
    /\ pc' = "report"
    /\ UNCHANGED <<calls, outcomes, errors, created, at, raised, createFrame>>

\* lines 619-629
Report ==
    /\ pc = "report"
    /\ stdout' = ResultPayload
    /\ exit_code' = IF errors = <<>> THEN 0 ELSE 1
    /\ pc' = "done"
    /\ UNCHANGED <<calls, outcomes, existing_by_field, existing_record_ids, records, errors,
                   skipped, created, at, fate, raised, stderr, writeFrame>>

\* line 633: an exception leaves main, the interpreter prints it and exits 1
WriteUncaught ==
    /\ pc = "raised"
    /\ stderr' = Append(stderr, [type |-> "Traceback", what |-> raised.type])
    /\ exit_code' = 1
    /\ pc' = "done"
    /\ UNCHANGED <<calls, outcomes, existing_by_field, existing_record_ids, records, errors,
                   skipped, created, at, fate, stdout, raised, writeFrame>>

WriteNext ==
    \/ WriteBegin
    \/ CollectItem
    \/ CollectItemProbed
    \/ CollectItemProbeError
    \/ ResolveFieldDone
    \/ ResolveFieldFailed
    \/ ResolveFieldTransportError
    \/ Partition
    \/ CreateSingleOk
    \/ CreateSingleFailed
    \/ CreateSingleTransportError
    \/ BatchCreateOk
    \/ BatchCreateFailed
    \/ BatchCreateTransportError
    \/ BatchLoopEnd
    \/ Report
    \/ WriteUncaught

SpecWrite == WriteInit /\ [][WriteNext]_vars

----------------------------------------------------------------------------
(* References: parse_bitable_url, fetch_tasks.py lines 77-112 *)

\* s.find(c), counted from 1, 0 if absent
Find(s, c) ==
    IF \E i \in 1..Len(s) : s[i] = c
    THEN CHOOSE i \in 1..Len(s) : s[i] = c /\ \A j \in 1..(i - 1) : s[j] # c
    ELSE 0

\* s.split(c)
RECURSIVE Split(_, _)
Split(s, c) ==
    IF Find(s, c) = 0 THEN <<s>>
    ELSE <<SubSeq(s, 1, Find(s, c) - 1)>> \o Split(SubSeq(s, Find(s, c) + 1, Len(s)), c)

\* s.split(c, 1)
SplitOnce(s, c) ==
    IF Find(s, c) = 0 THEN <<s>>
    ELSE <<SubSeq(s, 1, Find(s, c) - 1), SubSeq(s, Find(s, c) + 1, Len(s))>>

\* s.strip(c) for one character c
RECURSIVE StripChar(_, _)
StripChar(s, c) ==
    IF s # <<>> /\ Head(s) = c THEN StripChar(Tail(s), c)
    ELSE IF s # <<>> /\ s[Len(s)] = c THEN StripChar(SubSeq(s, 1, Len(s) - 1), c)
    ELSE s

IsAsciiLetter(c) == c \in 65..90 \/ c \in 97..122

\* urllib.parse.scheme_chars
IsSchemeChar(c) == IsAsciiLetter(c) \/ c \in 48..57 \/ c \in {43, 45, 46}

Lower(s) == [i \in 1..Len(s) |-> IF s[i] \in 65..90 THEN s[i] + 32 ELSE s[i]]

\* s.replace("+", " ")
PlusToSpace(s) == [i \in 1..Len(s) |-> IF s[i] = 43 THEN 32 ELSE s[i]]

(* urllib.parse.urlparse for a text without control characters, brackets,  *)
(* ";" and "%": scheme, then //netloc, then #fragment, then ?query.         *)
urlparse(text) ==
    LET url == LStrip(text)
        colon == Find(url, 58)
        has_scheme == /\ colon > 1
                      /\ IsAsciiLetter(url[1])
                      /\ \A i \in 1..(colon - 1) : IsSchemeChar(url[i])
        scheme == IF has_scheme THEN Lower(SubSeq(url, 1, colon - 1)) ELSE <<>>
        rest1 == IF has_scheme THEN SubSeq(url, colon + 1, Len(url)) ELSE url
        has_netloc == Len(rest1) >= 2 /\ rest1[1] = 47 /\ rest1[2] = 47
        ends == {i \in 3..Len(rest1) : rest1[i] \in {47, 63, 35}}
        delim == IF ends = {} THEN Len(rest1) + 1
                 ELSE CHOOSE i \in ends : \A j \in ends : i <= j
        netloc == IF has_netloc THEN SubSeq(rest1, 3, delim - 1) ELSE <<>>
        rest2 == IF has_netloc THEN SubSeq(rest1, delim, Len(rest1)) ELSE rest1
        rest3 == SplitOnce(rest2, 35)[1]
        parts == SplitOnce(rest3, 63)
    IN [scheme |-> scheme, netloc |-> netloc, path |-> parts[1],
        query |-> IF Len(parts) = 2 THEN parts[2] ELSE <<>>]

\* urllib.parse.parse_qsl with its defaults: pairs without "=" or with a
\* blank value are dropped
parse_qsl(query) ==
    LET fields == IF query = <<>> THEN <<>> ELSE Split(query, 38)
        pairs == [i \in 1..Len(fields) |-> SplitOnce(fields[i], 61)]
        kept == SelectSeq(pairs, LAMBDA nv : Len(nv) = 2 /\ nv[2] # <<>>)
    IN [i \in 1..Len(kept) |-> <<PlusToSpace(kept[i][1]), PlusToSpace(kept[i][2])>>]

\* qs.get(key) or [] of parse_qs: the values given for key, in order
QueryValues(qsl, key) ==
    LET hits == SelectSeq(qsl, LAMBDA nv : nv[1] = key)
    IN [i \in 1..Len(hits) |-> hits[i][2]]

\* first_query_value, lines 106-112
RECURSIVE first_query_value(_, _)
first_query_value(qsl, keys) ==
    IF keys = <<>> THEN <<>>
    ELSE LET vals == SelectSeq(QueryValues(qsl, Head(keys)), LAMBDA v : Strip(v) # <<>>)
         IN IF vals # <<>> THEN Strip(vals[1]) ELSE first_query_value(qsl, Tail(keys))

TextBase == <<98, 97, 115, 101>>
TextWiki == <<119, 105, 107, 105>>
TextTable == <<116, 97, 98, 108, 101>>
TextView == <<118, 105, 101, 119>>
TextId == <<73, 100>>
TextUnderId == <<95, 105, 100>>

\* the loop of lines 88-94 from index i on; tokens is <<app_token, wiki_token>>
RECURSIVE WalkSegments(_, _, _)
WalkSegments(segments, i, tokens) ==
    IF i > Len(segments) - 1 THEN tokens
    ELSE LET next == IF segments[i] = TextBase THEN <<segments[i + 1], tokens[2]>>
                     ELSE IF segments[i] = TextWiki THEN <<tokens[1], segments[i + 1]>>
                     ELSE tokens
         IN IF next[1] # <<>> THEN next ELSE WalkSegments(segments, i + 1, next)

BitableRef(error, raw_url, app_token, table_id, view_id, wiki_token) ==
    [error |-> error, raw_url |-> raw_url, app_token |-> app_token, table_id |-> table_id,
     view_id |-> view_id, wiki_token |-> wiki_token]

\* mutant: the container id of a path without marker is its first segment
LastSegment_First(segments) == segments[1]

\* segments[-1]
LastSegment(segments) == segments[Len(segments)]

\* parse_bitable_url; error is the ValueError raised, "" if none
parse_bitable_url(value) ==
    LET raw == StrOrEmpty(value)
        u == urlparse(raw)
        segments == NonEmpty(Split(StripChar(u.path, 47), 47))
        walked == WalkSegments(segments, 1, << <<>>, <<>> >>)
        app_token == IF walked[1] = <<>> /\ walked[2] = <<>> /\ segments # <<>>
                     THEN LastSegment(segments) ELSE walked[1]
        qs == parse_qsl(u.query)
        table_id == first_query_value(qs, <<TextTable, TextTable \o TextId,
                                            TextTable \o TextUnderId>>)
        view_id == first_query_value(qs, <<TextView, TextView \o TextId,
                                           TextView \o TextUnderId>>)
    IN IF raw = <<>> THEN BitableRef("bitable url is empty", raw, <<>>, <<>>, <<>>, <<>>)
       ELSE IF u.scheme = <<>>
       THEN BitableRef("bitable url missing scheme", raw, <<>>, <<>>, <<>>, <<>>)
       ELSE IF table_id = <<>>
       THEN BitableRef("missing table_id in bitable url query", raw, <<>>, <<>>, <<>>, <<>>)
       ELSE BitableRef("", raw, app_token, table_id, view_id, walked[2])

----------------------------------------------------------------------------
(* Functions applied on their own *)

\* every variable of the three runs at rest
AllIdle ==
    /\ calls = <<>> /\ responses = <<>> /\ outcomes = <<>>
    /\ page_size = 0 /\ limit = 0 /\ max_pages = 0
    /\ items = <<>> /\ page_token = <<>> /\ pages = 0 /\ stop = "none"
    /\ returned = NoValue /\ raised = NoValue /\ exit_code = -1 /\ stderr = <<>>
    /\ values = <<>> /\ existing = <<>> /\ batch_no = 0
    /\ creates = <<>> /\ skip_fields = <<>> /\ existing_by_field = <<>>
    /\ existing_record_ids = {} /\ records = <<>> /\ errors = <<>>
    /\ skipped = 0 /\ created = 0 /\ at = 0 /\ fate = <<>> /\ stdout = NoValue

\* what applying a function without remote calls leaves alone
pureFrame == <<calls, responses, store, fetchVars, returned, raised, exit_code, stderr,
               resolveVars, writeVars, arg>>

\* what record_exists leaves alone
probeFrame == <<store, fetchVars, returned, raised, exit_code, stderr, resolveVars,
                creates, skip_fields, existing_by_field, existing_record_ids, records,
                errors, skipped, created, at, fate, stdout, arg>>

\* the record ids record_exists is called with
ProbeArgs ==
    {Null, Str(<<>>), Str(<<32>>), Str(RecordId(1)), Str(<<32>> \o RecordId(1) \o <<32>>),
     Str(RecordId(2)), Str(RecordId(MaxTableRows + 1))}

ProbeInit ==
    /\ pc = "probe"
    /\ arg \in ProbeArgs
    /\ result = NoValue
    /\ store \in TaskStores
    /\ AllIdle

\* lines 230-232: no record id, no call
ProbeNoCall ==
    /\ pc = "probe"
    /\ StrOrEmpty(arg) = <<>>
    /\ result' = Bool(FALSE)
    /\ pc' = "done"
    /\ UNCHANGED <<calls, responses, outcomes, probeFrame>>

\* lines 233-241: the lookup is answered
ProbeAnswered ==
    /\ pc = "probe"
    /\ StrOrEmpty(arg) # <<>>
    /\ \E resp \in {ProbeResponse(store, StrOrEmpty(arg))} \cup ErrorResponses :
          /\ responses' = Append(responses, resp)
          /\ outcomes' = Append(outcomes, IF resp.code = Num(0) THEN "ok" ELSE "failed")
          /\ result' = Bool(ProbeFound(resp))
    /\ calls' = Append(calls, ProbeCall(StrOrEmpty(arg)))
    /\ pc' = "done"
    /\ UNCHANGED probeFrame

\* lines 237-240: urlopen raises
ProbeTransportError ==
    /\ pc = "probe"
    /\ StrOrEmpty(arg) # <<>>
    /\ calls' = Append(calls, ProbeCall(StrOrEmpty(arg)))
    /\ outcomes' = Append(outcomes, "transport")
    /\ result' = Bool(FALSE)
    /\ pc' = "done"
    /\ UNCHANGED <<responses, probeFrame>>

\* lines 237-240: the body is no JSON and json.loads raises
ProbeDecodeError ==
    /\ pc = "probe"
    /\ StrOrEmpty(arg) # <<>>
    /\ calls' = Append(calls, ProbeCall(StrOrEmpty(arg)))
    /\ outcomes' = Append(outcomes, "decode")
    /\ result' = Bool(FALSE)
    /\ pc' = "done"
    /\ UNCHANGED <<responses, probeFrame>>

ProbeNext ==
    \/ ProbeNoCall
    \/ ProbeAnswered
    \/ ProbeTransportError
    \/ ProbeDecodeError

SpecProbe == ProbeInit /\ [][ProbeNext]_vars

\* scheme and host: "https://x", " https://x", "x", "HTTPS://x"
UrlPrefixes ==
    {<<104, 116, 116, 112, 115, 58, 47, 47, 120>>,
     <<32, 104, 116, 116, 112, 115, 58, 47, 47, 120>>,
     <<120>>,
     <<72, 84, 84, 80, 83, 58, 47, 47, 120>>}

\* paths: "", "/", "/base/A", "/wiki/W", "/base", "/A/B", "/wiki/W/base/A", "/wiki/V/wiki/W", "//base//A/"
UrlPaths ==
    {<<>>,
     <<47>>,
     <<47, 98, 97, 115, 101, 47, 65>>,
     <<47, 119, 105, 107, 105, 47, 87>>,
     <<47, 98, 97, 115, 101>>,
     <<47, 65, 47, 66>>,
     <<47, 119, 105, 107, 105, 47, 87, 47, 98, 97, 115, 101, 47, 65>>,
     <<47, 119, 105, 107, 105, 47, 86, 47, 119, 105, 107, 105, 47, 87>>,
     <<47, 47, 98, 97, 115, 101, 47, 47, 65, 47>>}

\* queries: "", "?table=T", "?table=T&view=V", "?tableId=T", "?table_id=T&viewId=V", "?view=V", "?table=&tableId=T", "?table=+&table_id=T&view_id=+V+", "?table=T&table=U#f"
UrlQueries ==
    {<<>>,
     <<63, 116, 97, 98, 108, 101, 61, 84>>,
     <<63, 116, 97, 98, 108, 101, 61, 84, 38, 118, 105, 101, 119, 61, 86>>,
     <<63, 116, 97, 98, 108, 101, 73, 100, 61, 84>>,
     <<63, 116, 97, 98, 108, 101, 95, 105, 100, 61, 84, 38, 118, 105, 101, 119, 73, 100, 61, 86>>,
     <<63, 118, 105, 101, 119, 61, 86>>,
     <<63, 116, 97, 98, 108, 101, 61, 38, 116, 97, 98, 108, 101, 73, 100, 61, 84>>,
     <<63, 116, 97, 98, 108, 101, 61, 43, 38, 116, 97, 98, 108, 101, 95, 105, 100, 61, 84, 38, 118, 105, 101, 119, 95, 105, 100, 61, 43, 86, 43>>,
     <<63, 116, 97, 98, 108, 101, 61, 84, 38, 116, 97, 98, 108, 101, 61, 85, 35, 102>>}

\* "https://x/base/ABC123?table=T1&view=V1"
ExampleBaseUrl ==
    <<104, 116, 116, 112, 115, 58, 47, 47, 120, 47, 98, 97, 115, 101, 47, 65, 66, 67, 49, 50, 51, 63, 116, 97, 98, 108, 101, 61, 84, 49, 38, 118, 105, 101, 119, 61, 86, 49>>

\* "https://x/wiki/WK1?table=T1"
ExampleWikiUrl ==
    <<104, 116, 116, 112, 115, 58, 47, 47, 120, 47, 119, 105, 107, 105, 47, 87, 75, 49, 63, 116, 97, 98, 108, 101, 61, 84, 49>>

\* the task URLs handed to parse_bitable_url
Urls ==
    {p \o path \o q : p \in UrlPrefixes, path \in UrlPaths, q \in UrlQueries}
    \cup {ExampleBaseUrl, ExampleWikiUrl}

ParseArgs == {Str(u) : u \in Urls} \cup {Null, Str(<<>>), Str(<<32>>)}

ValueError(what) == [type |-> "ValueError", what |-> what]

ParseInit ==
    /\ pc = "parse"
    /\ arg \in ParseArgs
    /\ result = NoValue
    /\ store = <<>>
    /\ AllIdle

\* line 103: the reference is returned
ParseReturns ==
    /\ pc = "parse"
    /\ parse_bitable_url(arg).error = ""
    /\ result' = parse_bitable_url(arg)
    /\ pc' = "done"
    /\ UNCHANGED pureFrame

\* lines 79-80, 82-83, 101-102: ValueError
ParseRaises ==
    /\ pc = "parse"
    /\ parse_bitable_url(arg).error # ""
    /\ raised' = ValueError(parse_bitable_url(arg).error)
    /\ pc' = "raised"
    /\ UNCHANGED <<calls, responses, store, fetchVars, returned, exit_code, stderr,
                   resolveVars, writeVars, callVars>>

ParseNext ==
    \/ ParseReturns
    \/ ParseRaises

SpecParse == ParseInit /\ [][ParseNext]_vars

----------------------------------------------------------------------------
(* Configuration: fetch_tasks.py main lines 431-460, create_tasks.py main   *)
(* lines 516-548                                                            *)

\* env(name): os.getenv(name, "").strip()
env(value) == Strip(value)

\* the task URLs of the runs: none, blank, "https://x/base/A?table=T", "https://x/wiki/W?table=T",
\* "x/base/A?table=T", "https://x/base/A?view=V", "https://x?table=T"
ConfigUrls ==
    {Null, Str(<<32>>),
     Str(<<104, 116, 116, 112, 115, 58, 47, 47, 120, 47, 98, 97, 115, 101, 47, 65, 63, 116, 97, 98, 108, 101, 61, 84>>),
     Str(<<104, 116, 116, 112, 115, 58, 47, 47, 120, 47, 119, 105, 107, 105, 47, 87, 63, 116, 97, 98, 108, 101, 61, 84>>),
     Str(<<120, 47, 98, 97, 115, 101, 47, 65, 63, 116, 97, 98, 108, 101, 61, 84>>),
     Str(<<104, 116, 116, 112, 115, 58, 47, 47, 120, 47, 98, 97, 115, 101, 47, 65, 63, 118, 105, 101, 119, 61, 86>>),
     Str(<<104, 116, 116, 112, 115, 58, 47, 47, 120, 63, 116, 97, 98, 108, 101, 61, 84>>)}

\* a run: which program, its --task-url, the two credentials of the
\* environment and, for the writer, the number of items load_creates gives
ConfigArgs ==
    [program : {"fetch", "create"}, task_url : ConfigUrls, app_id : {<<>>, <<105>>},
     app_secret : {<<32>>, <<115>>}, tasks : {0, 1}]

ConfigInit ==
    /\ pc = "config"
    /\ arg \in ConfigArgs
    /\ result = NoValue
    /\ store = <<>>
    /\ AllIdle

Message(what) == [type |-> "message", what |-> what]

\* the first configuration check that fails, "" if none does
ConfigFault ==
    IF StrOrEmpty(arg.task_url) = <<>> THEN "TASK_BITABLE_URL is required"
    ELSE IF env(arg.app_id) = <<>> \/ env(arg.app_secret) = <<>>
    THEN "FEISHU_APP_ID/FEISHU_APP_SECRET are required"
    ELSE IF arg.program = "create" /\ arg.tasks = 0 THEN "no tasks provided"
    ELSE ""

configFrame == <<responses, store, fetchVars, returned, resolveVars, creates, skip_fields,
                 existing_by_field, existing_record_ids, records, errors, skipped, created,
                 at, fate, stdout, arg>>

\* fetch lines 433-442, create lines 518-535: a check fails, exit 2
ConfigRejected ==
    /\ pc = "config"
    /\ ConfigFault # ""
    /\ stderr' = Append(stderr, Message(ConfigFault))
    /\ exit_code' = 2
    /\ pc' = "done"
    /\ UNCHANGED <<calls, outcomes, raised, result, configFrame>>

\* fetch line 446, create line 538: the URL parses
ReferenceParsed ==
    /\ pc = "config"
    /\ ConfigFault = ""
    /\ parse_bitable_url(arg.task_url).error = ""
    /\ result' = parse_bitable_url(arg.task_url)
    /\ pc' = "token"
    /\ UNCHANGED <<calls, outcomes, raised, exit_code, stderr, configFrame>>

\* fetch line 446, create line 538: parse_bitable_url raises ValueError
ReferenceRaises ==
    /\ pc = "config"
    /\ ConfigFault = ""
    /\ parse_bitable_url(arg.task_url).error # ""
    /\ raised' = ValueError(parse_bitable_url(arg.task_url).error)
    /\ pc' = "raised"
    /\ UNCHANGED <<calls, outcomes, exit_code, stderr, result, configFrame>>

TokenCall == [op |-> "token", app_id |-> env(arg.app_id), app_secret |-> env(arg.app_secret)]

\* fetch line 451, create line 539: the token is issued
TokenIssued ==
    /\ pc = "token"
    /\ calls' = Append(calls, TokenCall)
    /\ outcomes' = Append(outcomes, "ok")
    /\ pc' = "tokened"
    /\ UNCHANGED <<raised, exit_code, stderr, result, configFrame>>

\* lines 141-146 and fetch 458-460, create 546-548: RuntimeError, exit 2
TokenRefused ==
    /\ pc = "token"
    /\ calls' = Append(calls, TokenCall)
    /\ outcomes' = Append(outcomes, "failed")
    /\ \E what \in {"tenant token error", "tenant token missing in response"} :
          stderr' = Append(stderr, Message(what))
    /\ exit_code' = 2
    /\ pc' = "done"
    /\ UNCHANGED <<raised, result, configFrame>>

\* line 140: the token request fails in the transport
TokenTransportError ==
    /\ pc = "token"
    /\ calls' = Append(calls, TokenCall)
    /\ outcomes' = Append(outcomes, "transport")
    /\ raised' = TransportError
    /\ pc' = "raised"
    /\ UNCHANGED <<exit_code, stderr, result, configFrame>>

\* fetch line 452, create line 540: the URL named the container
ContainerKnown ==
    /\ pc = "tokened"
    /\ result.app_token # <<>>
    /\ pc' = "configured"
    /\ UNCHANGED <<calls, outcomes, raised, exit_code, stderr, result, configFrame>>

WikiCall == [op |-> "wiki", wiki_token |-> Strip(result.wiki_token)]

\* the answers to get_node: the code, and obj_type and obj_token of
\* data.node (None also where data or node is absent)
WikiResponses ==
    [code : {Num(0), Num(131005)},
     obj_type : {Null, Str(<<98, 105, 116, 97, 98, 108, 101>>), Str(<<32, 98, 105, 116, 97, 98, 108, 101, 32>>), Str(<<100, 111, 99, 120>>)},
     obj_token : {Null, Str(<<111>>), Str(<<32>>), Str(<<32, 111, 32>>)}]

\* mutant: the object token is returned without the test for emptiness
resolve_wiki_app_token_Unchecked(wiki_token, resp) ==
    IF Strip(wiki_token) = <<>> THEN [error |-> "wiki token is empty", app_token |-> <<>>]
    ELSE IF resp.code # Num(0) THEN [error |-> "wiki node error", app_token |-> <<>>]
    ELSE IF StrOrEmpty(resp.obj_type) # <<98, 105, 116, 97, 98, 108, 101>>
    THEN [error |-> "wiki node obj_type is not bitable", app_token |-> <<>>]
    ELSE [error |-> "", app_token |-> StrOrEmpty(resp.obj_token)]

\* resolve_wiki_app_token, lines 149-165: the error raised, "" if none, and
\* the token returned
resolve_wiki_app_token(wiki_token, resp) ==
    IF Strip(wiki_token) = <<>> THEN [error |-> "wiki token is empty", app_token |-> <<>>]
    ELSE IF resp.code # Num(0) THEN [error |-> "wiki node error", app_token |-> <<>>]
    ELSE IF StrOrEmpty(resp.obj_type) # <<98, 105, 116, 97, 98, 108, 101>>
    THEN [error |-> "wiki node obj_type is not bitable", app_token |-> <<>>]
    ELSE IF StrOrEmpty(resp.obj_token) = <<>>
    THEN [error |-> "wiki node obj_token missing", app_token |-> <<>>]
    ELSE [error |-> "", app_token |-> StrOrEmpty(resp.obj_token)]

wikiFrame == <<store, fetchVars, returned, resolveVars, creates, skip_fields,
               existing_by_field, existing_record_ids, records, errors, skipped, created,
               at, fate, stdout, arg>>

\* fetch lines 453-454, create lines 541-542 and lines 149-165
WikiResolved ==
    /\ pc = "tokened"
    /\ result.app_token = <<>> /\ result.wiki_token # <<>>
    /\ \E resp \in WikiResponses :
        LET got == resolve_wiki_app_token(result.wiki_token, resp)
        IN /\ got.error = ""
           /\ responses' = Append(responses, resp)
           /\ result' = [result EXCEPT !.app_token = got.app_token]
    /\ calls' = Append(calls, WikiCall)
    /\ outcomes' = Append(outcomes, "ok")
    /\ pc' = "configured"
    /\ UNCHANGED <<raised, exit_code, stderr, wikiFrame>>

\* lines 155-164 and fetch 458-460, create 546-548: RuntimeError, exit 2
WikiRefused ==
    /\ pc = "tokened"
    /\ result.app_token = <<>> /\ result.wiki_token # <<>>
    /\ \E resp \in WikiResponses :
        LET got == resolve_wiki_app_token(result.wiki_token, resp)
        IN /\ got.error # ""
           /\ responses' = Append(responses, resp)
           /\ stderr' = Append(stderr, Message(got.error))
    /\ calls' = Append(calls, WikiCall)
    /\ outcomes' = Append(outcomes, "failed")
    /\ exit_code' = 2
    /\ pc' = "done"
    /\ UNCHANGED <<raised, result, wikiFrame>>

\* line 154: the wiki request fails in the transport
WikiTransportError ==
    /\ pc = "tokened"
    /\ result.app_token = <<>> /\ result.wiki_token # <<>>
    /\ calls' = Append(calls, WikiCall)
    /\ outcomes' = Append(outcomes, "transport")
    /\ raised' = TransportError
    /\ pc' = "raised"
    /\ UNCHANGED <<exit_code, stderr, result, configFrame>>

\* the operations that name the container in their URL: search (fetch line
\* 212, create resolve_existing_by_field), probe (create lines 233-235),
\* create (create lines 129-131 and 142-144)
DataOps(program) == IF program = "fetch" THEN {"search"} ELSE {"search", "probe", "create"}

\* the first call of the run that addresses the table
DataCall ==
    /\ pc = "configured"
    /\ \E op \in DataOps(arg.program) :
        calls' = Append(calls, [op |-> op, app_token |-> result.app_token,
                                table_id |-> result.table_id])
    /\ outcomes' = Append(outcomes, "ok")
    /\ pc' = "running"
    /\ UNCHANGED <<raised, exit_code, stderr, result, configFrame>>

MissingTokens == "bitable URL missing app_token and wiki_token"

\* fetch lines 455-457, create lines 543-545
ContainerMissing ==
    /\ pc = "tokened"
    /\ result.app_token = <<>> /\ result.wiki_token = <<>>
    /\ stderr' = Append(stderr, Message(MissingTokens))
    /\ exit_code' = 2
    /\ pc' = "done"
    /\ UNCHANGED <<calls, outcomes, raised, result, configFrame>>

\* fetch line 515, create line 633: neither except clause takes the
\* exception, the interpreter prints the traceback and exits 1
ConfigUncaught ==
    /\ pc = "raised"
    /\ stderr' = Append(stderr, [type |-> "Traceback", what |-> raised.type])
    /\ exit_code' = 1
    /\ pc' = "done"
    /\ UNCHANGED <<calls, outcomes, raised, result, configFrame>>

ConfigNext ==
    \/ ConfigRejected
    \/ ReferenceParsed
    \/ ReferenceRaises
    \/ TokenIssued
    \/ TokenRefused
    \/ TokenTransportError
    \/ ContainerKnown
    \/ WikiResolved
    \/ WikiRefused
    \/ WikiTransportError
    \/ ContainerMissing
    \/ DataCall
    \/ ConfigUncaught

SpecConfig == ConfigInit /\ [][ConfigNext]_vars

----------------------------------------------------------------------------
(* Cell values: normalize_bitable_value applied to one value *)

ScalarArgs ==
    {Null, Str(<<>>), Str(<<97>>), Str(<<32, 98, 32>>),
     Num(0), Num(7), Num(0 - 3), Num(12),
     Float(0), Float(30), Float(35), Float(0 - 5), Float(120),
     Bool(TRUE), Bool(FALSE)}

\* what an array may hold: "x", "", "y", 1, null, {text: a}, {text: b},
\* {text: " ", value: c}, {value: d}, {text: 5}, ["z"]
ArrayElements ==
    {Str(<<120>>), Str(<<>>), Str(<<121>>), Num(1), Null,
     Dict(<< <<"text", Str(<<97>>)>> >>),
     Dict(<< <<"text", Str(<<98>>)>> >>),
     Dict(<< <<"text", Str(<<32>>)>>, <<"value", Str(<<99>>)>> >>),
     Dict(<< <<"value", Str(<<100>>)>> >>),
     Dict(<< <<"text", Num(5)>> >>),
     List(<<Str(<<122>>)>>)}

\* ["x", "", "y"]
ExampleArray == List(<<Str(<<120>>), Str(<<>>), Str(<<121>>)>>)

ArrayArgs ==
    {List(xs) : xs \in UNION {[1..n -> ArrayElements] : n \in 0..MaxArrayLen}}
    \cup {ExampleArray}

ObjectArgs ==
    {Dict(<<>>), Dict(<< <<"name", Str(<<110>>)>> >>), Dict(<< <<"k", Num(1)>> >>)}

NormalizeInit ==
    /\ pc = "normalize"
    /\ arg \in ScalarArgs \cup ArrayArgs \cup ObjectArgs
    /\ result = NoValue
    /\ store = <<>>
    /\ AllIdle

\* lines 255-274
Normalized ==
    /\ pc = "normalize"
    /\ result' = Str(normalize_bitable_value(arg))
    /\ pc' = "done"
    /\ UNCHANGED pureFrame

NormalizeNext == Normalized

SpecNormalize == NormalizeInit /\ [][NormalizeNext]_vars

----------------------------------------------------------------------------
(* Rows to tasks: decode_task, fetch_tasks.py lines 343-410 *)

\* field_string, lines 343-346
field_string(fields, name) ==
    IF ~Truthy(fields) \/ name = "" THEN <<>>
    ELSE bitable_value_to_string(Get(fields, name))

IsDigits(s) == \A i \in 1..Len(s) : s[i] \in 48..57

RECURSIVE DigitsValue(_)
DigitsValue(s) ==
    IF s = <<>> THEN 0 ELSE 10 * DigitsValue(SubSeq(s, 1, Len(s) - 1)) + (s[Len(s)] - 48)

(* int(float(raw)) for a text in plain decimal notation, inf or nan (no     *)
(* exponent, no underscore): kind is "int" with the value truncated toward  *)
(* zero, "ValueError" or "OverflowError".                                   *)
IntOfFloat(raw) ==
    LET text == Strip(raw)
        signed == text # <<>> /\ text[1] \in {43, 45}
        body == IF signed THEN Tail(text) ELSE text
        parts == SplitOnce(body, 46)
        whole == parts[1]
        frac == IF Len(parts) = 2 THEN parts[2] ELSE <<>>
    IN IF Lower(body) \in {<<105, 110, 102>>, <<105, 110, 102, 105, 110, 105, 116, 121>>}
       THEN [kind |-> "OverflowError", v |-> 0]
       ELSE IF IsDigits(whole) /\ IsDigits(frac) /\ whole \o frac # <<>>
       THEN [kind |-> "int",
             v |-> IF signed /\ text[1] = 45 THEN 0 - DigitsValue(whole)
                   ELSE DigitsValue(whole)]
       ELSE [kind |-> "ValueError", v |-> 0]

\* field_int, lines 349-356: ValueError gives 0, any other exception leaves
field_int(fields, name) ==
    LET raw == field_string(fields, name)
        got == IntOfFloat(raw)
    IN IF raw = <<>> THEN [kind |-> "int", v |-> 0]
       ELSE IF got.kind = "ValueError" THEN [kind |-> "int", v |-> 0]
       ELSE got

\* the keys of a task and the columns they are read from, lines 370-396
TaskColumns ==
    << <<"biz_task_id", "BizTaskID">>, <<"parent_task_id", "ParentTaskID">>,
       <<"app", "App">>, <<"scene", "Scene">>, <<"params", "Params">>,
       <<"item_id", "ItemID">>, <<"book_id", "BookID">>, <<"url", "URL">>,
       <<"user_id", "UserID">>, <<"user_name", "UserName">>, <<"date", "Date">>,
       <<"status", "Status">>, <<"extra", "Extra">>, <<"logs", "Logs">>,
       <<"last_screenshot", "LastScreenShot">>, <<"group_id", "GroupID">>,
       <<"device_serial", "DeviceSerial">>, <<"dispatched_device", "DispatchedDevice">>,
       <<"dispatched_at", "DispatchedAt">>, <<"start_at", "StartAt">>,
       <<"end_at", "EndAt">>, <<"elapsed_seconds", "ElapsedSeconds">>,
       <<"items_collected", "ItemsCollected">>, <<"retry_count", "RetryCount">> >>

TaskKeys == {TaskColumns[i][1] : i \in 1..Len(TaskColumns)}

ColumnOf(key) == TaskColumns[CHOOSE i \in 1..Len(TaskColumns) : TaskColumns[i][1] = key][2]

\* the keys of which one must be filled, lines 398-408
PayloadKeys == {"params", "item_id", "book_id", "url", "user_id", "user_name"}

Task(task_id, texts) == [t |-> "task", task_id |-> task_id, texts |-> texts]

\* decode_task for a row whose id coerces without exception
decode_task(fields) ==
    LET task_id == field_int(fields, fields_map("TaskID")).v
        texts == [k \in TaskKeys |-> field_string(fields, fields_map(ColumnOf(k)))]
    IN IF ~Truthy(fields) THEN Null
       ELSE IF task_id = 0 THEN Null
       ELSE IF \A k \in PayloadKeys : texts[k] = <<>> THEN Null
       ELSE Task(task_id, texts)

\* the TaskID cells of the rows: 0, 7, "7", "abc", "7.9", "0.5", 7.0, "inf",
\* "-3", a rich text "7", true, " "
TaskIdCells ==
    {Num(0), Num(7), Str(<<55>>), Str(<<97, 98, 99>>), Str(<<55, 46, 57>>), Str(<<48, 46, 53>>), Float(70),
     Str(<<105, 110, 102>>), Str(<<45, 51>>), RichText(<<55>>), Bool(TRUE), Str(<<32>>)}

\* a row's fields: any subset of the columns TaskID, URL, Params and Status
RowFields ==
    {Dict(SelectSeq(<< <<"TaskID", id>>, <<"URL", url>>, <<"Params", params>>,
                       <<"Status", status>> >>,
                    LAMBDA kv : kv[2] # NoValue)) :
        id \in TaskIdCells \cup {NoValue},
        url \in {NoValue, Str(<<117>>), Str(<<32>>)},
        params \in {NoValue, Str(<<112>>)},
        status \in {NoValue, Str(<<115>>)}}

DecodeInit ==
    /\ pc = "decode"
    /\ arg \in RowFields
    /\ result = NoValue
    /\ store = <<>>
    /\ AllIdle

\* lines 360-361, 364-365, 398-409: no task
DecodeReturnsNone ==
    /\ pc = "decode"
    /\ ~Truthy(arg) \/ field_int(arg, fields_map("TaskID")).kind = "int"
    /\ decode_task(arg) = Null
    /\ result' = Null
    /\ pc' = "done"
    /\ UNCHANGED pureFrame

\* line 410
DecodeReturnsTask ==
    /\ pc = "decode"
    /\ Truthy(arg)
    /\ field_int(arg, fields_map("TaskID")).kind = "int"
    /\ decode_task(arg) # Null
    /\ result' = decode_task(arg)
    /\ pc' = "done"
    /\ UNCHANGED pureFrame

\* line 354: int() of an infinite float raises OverflowError, which the
\* except clause of line 355 does not take
DecodeRaises ==
    /\ pc = "decode"
    /\ Truthy(arg)
    /\ field_int(arg, fields_map("TaskID")).kind = "OverflowError"
    /\ raised' = [type |-> "OverflowError", what |-> "cannot convert float infinity to integer"]
    /\ pc' = "raised"
    /\ UNCHANGED <<calls, responses, store, fetchVars, returned, exit_code, stderr,
                   resolveVars, writeVars, callVars>>

DecodeNext ==
    \/ DecodeReturnsNone
    \/ DecodeReturnsTask
    \/ DecodeRaises

SpecDecode == DecodeInit /\ [][DecodeNext]_vars

----------------------------------------------------------------------------
(* Creation fields: build_create_fields, create_tasks.py lines 23-127 *)

\* a time stamp of an item: absent, 1000, 1500 or 4000 ms, the text "4000",
\* the empty text of an unset flag, or a text that is no time
TimeValues == {Null, Num(1000), Num(1500), Num(4000), Str(<<52, 48, 48, 48>>), Str(<<>>), Str(<<97, 98, 99>>)}

\* elapsed_seconds of an item: absent, the empty text of an unset flag, 5,
\* 0, "5", 5.0, 2.5 or a text that is no number
ElapsedValues == {Null, Str(<<>>), Num(5), Num(0), Str(<<53>>), Float(50), Float(25), Str(<<97, 98, 99>>)}

BuildItems ==
    [start_at : TimeValues, end_at : TimeValues,
     dispatched_at : {Null, Num(1500)}, completed_at : {Null, Num(1000)},
     elapsed_seconds : ElapsedValues]

BuildInit ==
    /\ pc = "build"
    /\ arg \in BuildItems
    /\ result = NoValue
    /\ store = <<>>
    /\ AllIdle

\* lines 23-127
Built ==
    /\ pc = "build"
    /\ result' = build_create_fields(arg)
    /\ pc' = "done"
    /\ UNCHANGED pureFrame

BuildNext == Built

SpecBuild == BuildInit /\ [][BuildNext]_vars

----------------------------------------------------------------------------
(* Input items: load_creates, create_tasks.py lines 338-512 *)

\* the four keys of the CDN URL, in the order line 457 tries them
CdnKeys == <<"CDNURL", "cdn_url", "cdnUrl", "cdnurl">>

\* mutant: the keys are tried last to first and the value is kept untrimmed
cdn_url_of_Raw(item) ==
    LET hits == {i \in 1..Len(CdnKeys) : ItemGet(item, CdnKeys[i]).t = "str"}
    IN IF hits = {} THEN <<>>
       ELSE ItemGet(item, CdnKeys[CHOOSE i \in hits : \A j \in hits : j <= i]).v

\* lines 456-461: the first of the keys with a non-blank text, trimmed
cdn_url_of(item) ==
    LET hits == {i \in 1..Len(CdnKeys) :
                    /\ ItemGet(item, CdnKeys[i]).t = "str"
                    /\ Strip(ItemGet(item, CdnKeys[i]).v) # <<>>}
    IN IF hits = {} THEN <<>>
       ELSE Strip(ItemGet(item, CdnKeys[CHOOSE i \in hits : \A j \in hits : i <= j]).v)

\* pick, lines 449-452
pick(item, key, fallback) ==
    IF ItemGet(item, key) # Null THEN ItemGet(item, key) ELSE fallback

\* lines 470-480: the override entries of an item that carries known keys only
ExtraFields(item) ==
    LET raw_fields == ItemGet(item, "fields")
    IN IF raw_fields.t = "dict"
       THEN Dict(SelectSeq(raw_fields.v, LAMBDA kv : kv[1] # "" /\ kv[2] # Null))
       ELSE Dict(<<>>)

(* lines 454-511 for one item of the input and the --extra and --book-id of *)
(* the command line; the other keys of merged are picked as book_id is.     *)
Merged(item, args) ==
    LET cdn_url == cdn_url_of(item)
        book == pick(item, "book_id", args.book_id)
    IN [book_id |-> IF Truthy(book) THEN book ELSE ItemGet(item, "BookID"),
        extra |-> IF cdn_url # <<>> THEN Dict(<< <<"cdn_url", Str(cdn_url)>> >>)
                  ELSE pick(item, "extra", args.extra),
        force_extra |-> Bool(cdn_url # <<>>),
        fields |-> ExtraFields(item)]

\* what an input item holds under a CDN key: nothing, "u", " " or " v "
CdnValues == {Null, Str(<<117>>), Str(<<32>>), Str(<<32, 118, 32>>)}

\* the extra of an item or of the command line: none, "", " ", a JSON text
\* or an object
ExtraValues == {Null, Str(<<>>), Str(<<32>>), Str(<<123, 34, 97, 34, 58, 32, 49, 125>>), Dict(<< <<"a", Num(1)>> >>)}

\* the fields override of an item: none, one naming Logs, one naming Extra
OverrideValues ==
    {Null, Dict(<< <<"Logs", Str(<<108>>)>> >>), Dict(<< <<"Extra", Str(<<120>>)>> >>)}

LoadInputs ==
    [item : [CDNURL : {Null, Str(<<117>>)}, cdn_url : CdnValues \cup {Num(5)},
             cdnUrl : {Null, Str(<<32>>)}, cdnurl : {Null, Str(<<32, 118, 32>>)},
             extra : ExtraValues, fields : OverrideValues,
             book_id : {Null, Str(<<98>>)}],
     args : [extra : {Str(<<>>), Str(<<123, 34, 97, 34, 58, 32, 49, 125>>)}, book_id : {Str(<<>>)}]]

LoadInit ==
    /\ pc = "load"
    /\ arg \in LoadInputs
    /\ result = NoValue
    /\ store = <<>>
    /\ AllIdle

\* lines 454-511: the item is normalized
LoadItem ==
    /\ pc = "load"
    /\ result' = Merged(arg.item, arg.args)
    /\ pc' = "loaded"
    /\ UNCHANGED pureFrame

\* main line 598: the fields of the normalized item are built
BuildLoaded ==
    /\ pc = "loaded"
    /\ returned' = build_create_fields(result)
    /\ pc' = "done"
    /\ UNCHANGED <<calls, responses, store, fetchVars, raised, exit_code, stderr,
                   resolveVars, writeVars, callVars>>

LoadNext ==
    \/ LoadItem
    \/ BuildLoaded

SpecLoad == LoadInit /\ [][LoadNext]_vars

----------------------------------------------------------------------------
(* Resume state: kwai_common.py lines 12-64 *)

\* a or b for two values
OrElse(a, b) == IF Truthy(a) THEN a ELSE b

\* is_success_record, lines 12-27; error_field "" stands for None
is_success_record(item, cdn_field, error_field) ==
    LET cdn == OrElse(Get(item, cdn_field),
                      OrElse(Get(item, "CDNURL"), OrElse(Get(item, "cdn_url"), Get(item, "cdnUrl"))))
        got == IF error_field # "" \/ HasKey(item, "error_msg")
               THEN GetOr(item, IF error_field # "" THEN error_field ELSE "error_msg", Str(<<>>))
               ELSE Str(<<>>)
        err == IF got = Null THEN Str(<<>>)
               ELSE IF got.t = "str" THEN Str(Strip(got.v)) ELSE got
    IN (cdn.t = "str" /\ Strip(cdn.v) # <<>>) /\ ~Truthy(err)

\* extract_url_from_record, lines 30-35
extract_url_from_record(item, url_field) ==
    LET keys == <<url_field, "URL", "url">>
        hits == {i \in 1..3 : Get(item, keys[i]).t = "str" /\ Strip(Get(item, keys[i]).v) # <<>>}
    IN IF hits = {} THEN <<>>
       ELSE Strip(Get(item, keys[CHOOSE i \in hits : \A j \in hits : i <= j]).v)

\* a line of the output file by what lines 47-54 make of it: blank, no JSON
\* (JSONDecodeError), or the JSON value it holds
Line(kind, item) == [kind |-> kind, item |-> item]

\* the records of the lines: a success with URL " a ", one with an error
\* message, one whose error message is 0 and whose keys are url and cdn_url,
\* one whose CDNURL is blank, a success without URL
ResumeRecords ==
    {Dict(<< <<"URL", Str(<<32, 97, 32>>)>>, <<"CDNURL", Str(<<99>>)>> >>),
     Dict(<< <<"URL", Str(<<98>>)>>, <<"CDNURL", Str(<<99>>)>>, <<"error_msg", Str(<<120>>)>> >>),
     Dict(<< <<"url", Str(<<100>>)>>, <<"cdn_url", Str(<<99>>)>>, <<"error_msg", Num(0)>> >>),
     Dict(<< <<"URL", Str(<<102>>)>>, <<"CDNURL", Str(<<32>>)>> >>),
     Dict(<< <<"CDNURL", Str(<<99>>)>> >>)}

ResumeLines ==
    {Line("blank", Null), Line("malformed", Null), Line("value", List(<<Num(1)>>))}
    \cup {Line("value", r) : r \in ResumeRecords}

(* The output file: missing, not to be opened (a directory, no permission),  *)
(* or open with its lines; bad > 0 says that line bad holds bytes that are  *)
(* no UTF-8.                                                                *)
ResumeFiles ==
    {[state |-> st, lines |-> <<>>, bad |-> 0] : st \in {"missing", "denied"}}
    \cup UNION {{[state |-> "open", lines |-> ls, bad |-> b] :
                    ls \in [1..n -> ResumeLines], b \in 0..n} : n \in 0..MaxLines}

ResumeInit ==
    /\ pc = "resume"
    /\ arg \in ResumeFiles
    /\ result = NoValue
    /\ store = <<>>
    /\ AllIdle

resumeFrame == <<calls, responses, store, fetchVars, exit_code, stderr, resolveVars, creates,
                 skip_fields, existing_by_field, existing_record_ids, records, errors,
                 skipped, created, fate, outcomes, stdout, arg>>

\* lines 44-46: the file opens
ResumeOpened ==
    /\ pc = "resume"
    /\ arg.state = "open"
    /\ result' = {}
    /\ at' = 1
    /\ pc' = "lines"
    /\ UNCHANGED <<returned, raised, resumeFrame>>

\* lines 62-63: FileNotFoundError gives the empty set
ResumeMissing ==
    /\ pc = "resume"
    /\ arg.state = "missing"
    /\ returned' = {}
    /\ pc' = "done"
    /\ UNCHANGED <<result, raised, at, resumeFrame>>

\* line 46: open raises an OSError that is no FileNotFoundError
ResumeDenied ==
    /\ pc = "resume"
    /\ arg.state = "denied"
    /\ raised' = [type |-> "PermissionError", what |-> "open"]
    /\ pc' = "raised"
    /\ UNCHANGED <<result, returned, at, resumeFrame>>

\* lines 47-61 for one line
ResumeLine ==
    /\ pc = "lines"
    /\ at <= Len(arg.lines)
    /\ at # arg.bad
    /\ LET line == arg.lines[at]
           url == extract_url_from_record(line.item, "URL")
       IN result' =
            IF /\ line.kind = "value"
               /\ line.item.t = "dict"
               /\ is_success_record(line.item, "CDNURL", "error_msg")
               /\ url # <<>>
            THEN result \cup {url}
            ELSE result
    /\ at' = at + 1
    /\ UNCHANGED <<pc, returned, raised, resumeFrame>>

\* line 47: the decoder meets the bytes that are no UTF-8, in the buffer it
\* fills for this line or for one before it
ResumeUndecodable ==
    /\ pc = "lines"
    /\ arg.bad # 0
    /\ at <= arg.bad
    /\ raised' = [type |-> "UnicodeDecodeError", what |-> "read"]
    /\ pc' = "raised"
    /\ UNCHANGED <<result, returned, at, resumeFrame>>

\* line 64
ResumeReturns ==
    /\ pc = "lines"
    /\ at > Len(arg.lines)
    /\ returned' = result
    /\ pc' = "done"
    /\ UNCHANGED <<result, raised, at, resumeFrame>>

ResumeNext ==
    \/ ResumeOpened
    \/ ResumeMissing
    \/ ResumeDenied
    \/ ResumeLine
    \/ ResumeUndecodable
    \/ ResumeReturns

SpecResume == ResumeInit /\ [][ResumeNext]_vars

----------------------------------------------------------------------------
(* Batches of resolutions: resolve_kuaishou_cdn.py, process_batch 166-201 *)

(* An input of a batch: its text and what process_one does with it, which   *)
(* depends on the network: it returns a record with the CDN URL ("ok"), it  *)
(* returns a record with an error message ("failed"), or it raises.         *)
BatchInputs == [text : {<<97>>, <<98>>}, does : {"ok", "failed", "raises"}]

\* the record process_one returns, lines 111-133
process_one(item) ==
    [url |-> item.text,
     cdn_url |-> IF item.does = "ok" THEN <<99>> ELSE <<>>,
     error_msg |-> IF item.does = "ok" THEN <<>> ELSE <<101>>]

\* the record of line 194 for a future that raised
RaisedRecord(item) == [url |-> item.text, cdn_url |-> <<>>, error_msg |-> <<120>>]

\* the outcome of a future as lines 191-194 store it
FutureRecord(item) == IF item.does = "raises" THEN RaisedRecord(item) ELSE process_one(item)

\* mutant: the outcome is stored at the place of its completion
Place_ByCompletion(results, idx, completed, value) ==
    [results EXCEPT ![completed + 1] = value]

\* results[idx] = ..., lines 192 and 194
Place(results, idx, completed, value) == [results EXCEPT ![idx] = value]

\* the line of line 198
Progress(done) == [type |-> "progress", what |-> done]

BatchArgs ==
    UNION {[batch : [1..n -> BatchInputs], workers : 1..MaxWorkers, progress_every : {0, 2}] :
           n \in 0..MaxBatch}

BatchInit ==
    /\ pc = "batch"
    /\ arg \in BatchArgs
    /\ result = NoValue
    /\ store = <<>>
    /\ AllIdle

batchFrame == <<calls, responses, store, fetchVars, exit_code, resolveVars, creates,
                skip_fields, existing_by_field, existing_record_ids, records, errors,
                skipped, created, at, fate, outcomes, stdout, arg>>

Sequential == arg.workers <= 1 \/ Len(arg.batch) = 1

\* lines 174-175: the loop in the calling thread begins
SequentialBegin ==
    /\ pc = "batch"
    /\ Sequential
    /\ result' = [status |-> <<>>, results |-> <<>>, completed |-> 0]
    /\ pc' = "sequential"
    /\ UNCHANGED <<returned, raised, stderr, batchFrame>>

\* lines 176-180 for one item that process_one returns for
SequentialItem ==
    /\ pc = "sequential"
    /\ result.completed < Len(arg.batch)
    /\ LET idx == result.completed + 1
       IN /\ arg.batch[idx].does # "raises"
          /\ result' = [result EXCEPT !.results = Append(@, process_one(arg.batch[idx])),
                                      !.completed = idx]
          /\ stderr' = IF arg.progress_every > 0 /\ idx % arg.progress_every = 0
                       THEN Append(stderr, Progress(idx))
                       ELSE stderr
    /\ UNCHANGED <<pc, returned, raised, batchFrame>>

\* line 177: process_one raises in the calling thread
SequentialRaises ==
    /\ pc = "sequential"
    /\ result.completed < Len(arg.batch)
    /\ arg.batch[result.completed + 1].does = "raises"
    /\ raised' = [type |-> "Exception", what |-> "process_one"]
    /\ pc' = "raised"
    /\ UNCHANGED <<result, returned, stderr, batchFrame>>

\* line 181
SequentialReturns ==
    /\ pc = "sequential"
    /\ result.completed = Len(arg.batch)
    /\ returned' = result.results
    /\ pc' = "done"
    /\ UNCHANGED <<result, raised, stderr, batchFrame>>

\* lines 183-189: every item is submitted to the pool
PoolSubmit ==
    /\ pc = "batch"
    /\ ~Sequential
    /\ result' = [status |-> [i \in 1..Len(arg.batch) |-> "queued"],
                  results |-> [i \in 1..Len(arg.batch) |-> NoValue],
                  completed |-> 0]
    /\ pc' = "pool"
    /\ UNCHANGED <<returned, raised, stderr, batchFrame>>

Running == {i \in 1..Len(arg.batch) : result.status[i] = "running"}

\* a free worker takes the item submitted first among those waiting
WorkerStarts ==
    /\ pc = "pool"
    /\ Cardinality(Running) < arg.workers
    /\ \E i \in 1..Len(arg.batch) :
        /\ result.status[i] = "queued"
        /\ \A j \in 1..(i - 1) : result.status[j] # "queued"
        /\ result' = [result EXCEPT !.status[i] = "running"]
    /\ UNCHANGED <<pc, returned, raised, stderr, batchFrame>>

\* a worker's process_one ends, by return or by exception
WorkerFinishes ==
    /\ pc = "pool"
    /\ \E i \in Running : result' = [result EXCEPT !.status[i] = "finished"]
    /\ UNCHANGED <<pc, returned, raised, stderr, batchFrame>>

\* lines 190-198: as_completed hands over a finished future
Collect ==
    /\ pc = "pool"
    /\ \E i \in 1..Len(arg.batch) :
        /\ result.status[i] = "finished"
        /\ result' = [result EXCEPT
                        !.status[i] = "collected",
                        !.results = Place(@, i, result.completed, FutureRecord(arg.batch[i])),
                        !.completed = @ + 1]
    /\ stderr' = IF arg.progress_every > 0 /\ (result.completed + 1) % arg.progress_every = 0
                 THEN Append(stderr, Progress(result.completed + 1))
                 ELSE stderr
    /\ UNCHANGED <<pc, returned, raised, batchFrame>>

\* line 201: every future was handed over
PoolReturns ==
    /\ pc = "pool"
    /\ \A i \in 1..Len(arg.batch) : result.status[i] = "collected"
    /\ returned' = SelectSeq(result.results, LAMBDA item : item # NoValue)
    /\ pc' = "done"
    /\ UNCHANGED <<result, raised, stderr, batchFrame>>

BatchNext ==
    \/ SequentialBegin
    \/ SequentialItem
    \/ SequentialRaises
    \/ SequentialReturns
    \/ PoolSubmit
    \/ WorkerStarts
    \/ WorkerFinishes
    \/ Collect
    \/ PoolReturns

SpecBatch == BatchInit /\ [][BatchNext]_vars

----------------------------------------------------------------------------
(* Read path: properties *)

LastResp == responses[Len(responses)]

\* the cursor call i carries, <<>> when it carries none
CallToken(i) == IF "page_token" \in DOMAIN calls[i] THEN calls[i].page_token ELSE <<>>

\* C22: the first search call carries no page token; every later search call
\* carries the page token of the response right before it (as the fetch
\* reads it: trimmed); a call is issued only after the response to the call
\* before it; on return PageInfo.pages is the number of search calls, >= 1.
C22_CursorContinuation ==
    /\ Len(calls) \in {Len(responses), Len(responses) + 1}
    /\ calls # <<>> => "page_token" \notin DOMAIN calls[1]
    /\ \A i \in 2..Len(calls) :
        /\ "page_token" \in DOMAIN calls[i]
        /\ calls[i].page_token # <<>>
        /\ calls[i].page_token = RespPageToken(responses[i - 1])
    /\ pc = "returned" =>
        /\ returned.page_info.pages = Len(calls)
        /\ Len(calls) >= 1

\* the page size the claim gives for a requested size and a limit
ClaimedPageSize(size, lim) ==
    LET clamped == IF size <= 0 THEN 200 ELSE IF size > 500 THEN 500 ELSE size
    IN IF lim > 0 /\ lim < clamped THEN lim ELSE clamped

\* C23: every search call of a fetch carries the same page_size, which lies
\* in 1..500: a non-positive requested size becomes 200, a size above 500
\* becomes 500, and when limit > 0 is smaller than that clamped size the
\* page_size is limit.
C23_PageSizeClampedAndFixed ==
    [][/\ pc = "fetch" => page_size' = ClaimedPageSize(page_size, limit)
       /\ pc # "fetch" => page_size' = page_size
       /\ calls' # calls =>
            /\ calls'[Len(calls')].page_size = page_size
            /\ page_size \in 1..500
            /\ \A i \in 1..Len(calls) : calls[i].page_size = page_size]_vars

\* three calls went out with the default size 200, the requested size
\* having been non-positive
C23_Witness ==
    /\ Len(calls) = 3
    /\ limit = 0
    /\ \A i \in 1..3 : calls[i].page_size = 200

\* three calls were issued, the second with cursor "a", the third with "b",
\* and the fetch returned
C22_Witness ==
    /\ pc = "returned"
    /\ Len(calls) = 3
    /\ CallToken(2) = <<97>>
    /\ CallToken(3) = <<98>>
    /\ returned.page_info.pages = 3

HasReturned == returned # NoValue

\* C1: with limit > 0, as soon as the rows accumulated after a page reach or
\* exceed limit the fetch has stopped and returned exactly the first limit
\* accumulated rows in store order; every normal return with limit > 0
\* carries at most limit rows.
C1_LimitTruncatesAndStops ==
    limit > 0 =>
        /\ (HasReturned => Len(returned.items) <= limit)
        /\ (Len(RowsReceived) >= limit =>
                /\ HasReturned
                /\ pc = "returned"
                /\ Len(calls) = Len(responses)
                /\ returned.items = SubSeq(RowsReceived, 1, limit)
                /\ returned.items = [i \in 1..limit |-> i])

C1_Witness ==
    /\ limit = 3
    /\ Len(RowsReceived) = 4
    /\ HasReturned
    /\ returned.items = <<1, 2, 3>>

\* C2: with max_pages > 0 at most max_pages search calls are issued; a fetch
\* that stops because max_pages was reached returns all rows of the pages
\* fetched so far, and has_more is true iff the last response carried a
\* non-empty page token (as read by the fetch, i.e. trimmed).
C2_MaxPagesBoundsCalls ==
    max_pages > 0 =>
        /\ Len(calls) <= max_pages
        /\ (HasReturned /\ stop = "max_pages" =>
                /\ Len(calls) = max_pages
                /\ returned.items = RowsReceived
                /\ returned.page_info.has_more = (RespPageToken(LastResp) # <<>>))

C2_Witness ==
    /\ max_pages = 2
    /\ HasReturned
    /\ stop = "max_pages"
    /\ Len(calls) = 2
    /\ returned.items = <<1, 2, 3, 4>>
    /\ returned.page_info.has_more
    /\ RespHasMore(LastResp)

\* the responses so far are k pages of a store: every page but the last says
\* has_more with a non-empty cursor, the last says no more or has no cursor
ServedPages(k) ==
    /\ Len(responses) = k
    /\ \A i \in 1..k :
        /\ responses[i].code = Num(0)
        /\ i < k => (RespHasMore(responses[i]) /\ RespPageToken(responses[i]) # <<>>)
        /\ i = k => (~RespHasMore(responses[i]) \/ RespPageToken(responses[i]) = <<>>)

\* C3: with limit = 0 and max_pages = 0, once a store has served its k pages
\* the fetch has terminated after exactly k search calls, returns the
\* concatenation of the k pages' rows in order, and reports pages = k.
C3_UnboundedFetchReadsAllPages ==
    \A k \in 1..Len(responses) :
        (limit = 0 /\ max_pages = 0 /\ ServedPages(k)) =>
            /\ pc = "returned"
            /\ Len(calls) = k
            /\ returned.items = RowsReceived
            /\ returned.page_info.pages = k

C3_Witness ==
    /\ limit = 0
    /\ max_pages = 0
    /\ ServedPages(3)
    /\ HasReturned
    /\ returned.items = <<1, 2, 3, 4, 5, 6>>
    /\ returned.page_info.pages = 3

\* C4: on every normal return has_more equals (the cursor of the last
\* response is non-empty) and next_page_token is that cursor, whatever the
\* store's own has_more flag; a response with has_more = false and a
\* non-empty cursor stops the fetch, which reports has_more = true.
C4_HasMoreIsCursorPresence ==
    /\ HasReturned =>
        /\ returned.page_info.has_more = (RespPageToken(LastResp) # <<>>)
        /\ returned.page_info.next_page_token = RespPageToken(LastResp)
    /\ (/\ responses # <<>>
        /\ LastResp.code = Num(0)
        /\ ~RespHasMore(LastResp)
        /\ RespPageToken(LastResp) # <<>>) =>
            /\ HasReturned
            /\ pc = "returned"
            /\ returned.page_info.has_more

C4_Witness ==
    /\ HasReturned
    /\ stop = "exhausted"
    /\ Get(RespData(LastResp), "has_more") = Bool(FALSE)
    /\ RespPageToken(LastResp) = <<97>>
    /\ returned.page_info.has_more
    /\ returned.page_info.next_page_token = <<97>>

\* C5: a search response with a non-success code fails the whole fetch with
\* an error carrying that code and message: nothing is returned (rows of
\* earlier pages included), the page is not retried and no further search
\* call is issued; main prints the error and exits 2.
C5_RemoteErrorFailsWholeFetch ==
    \A i \in 1..Len(responses) :
        responses[i].code # Num(0) =>
            /\ i = Len(responses)
            /\ Len(calls) = i
            /\ pc \in {"raised", "exit"}
            /\ raised.type = "RuntimeError"
            /\ raised.code = responses[i].code
            /\ raised.msg = responses[i].msg
            /\ returned = NoValue
            /\ (pc = "exit" => exit_code = 2 /\ stderr = <<raised>>)

C5_Witness ==
    /\ Len(responses) = 2
    /\ Len(RowsReceived) = 2
    /\ LastResp.code = Num(1254005)
    /\ pc = "exit"
    /\ exit_code = 2
    /\ returned = NoValue

----------------------------------------------------------------------------
(* Existing-record resolver: properties *)

\* the candidate values are distinct, non-empty and already trimmed
DistinctCandidates ==
    /\ \A i \in 1..Len(values) : values[i] # <<>> /\ Strip(values[i]) = values[i]
    /\ \A i, j \in 1..Len(values) : i # j => values[i] # values[j]

\* the values the k-th search call asks for
CallValues(k) ==
    LET conds == FilterConditions(calls[k].filter)
    IN [i \in 1..Len(conds) |-> conds[i].value]

\* some row a search returned carries text v in the resolved field
WasReturned(v) ==
    \E k \in 1..Len(responses) :
        \E i \in 1..Len(RespItems(responses[k])) :
            CellText(RespItems(responses[k])[i], ResolveField) = v

\* C9: over n distinct non-empty candidate values the resolver issues one
\* search per chunk, ceil(n/50) in all, the k-th carrying the k-th run of at
\* most 50 values as its OR conditions; a candidate that no returned row
\* matches is absent from the result mapping.
C9_OneLookupPerChunkOfFifty ==
    DistinctCandidates =>
        LET n == Len(values)
        IN /\ Len(calls) <= (n + 49) \div 50
           /\ \A k \in 1..Len(calls) :
                /\ Len(CallValues(k)) <= 50
                /\ CallValues(k) = SubSeq(values, 50 * (k - 1) + 1, Min(50 * k, n))
                /\ Get(calls[k].filter, "conjunction") = "or"
           /\ pc = "returned" =>
                /\ Len(calls) = (n + 49) \div 50
                /\ \A i \in 1..n : values[i] \in DOMAIN returned => WasReturned(values[i])

C9_Witness ==
    /\ Len(values) = 120
    /\ DistinctCandidates
    /\ pc = "returned"
    /\ Len(calls) = 3
    /\ Len(CallValues(1)) = 50
    /\ Len(CallValues(2)) = 50
    /\ Len(CallValues(3)) = 20
    /\ DOMAIN returned = {BulkValue(51)}
    /\ Len(store) = 3

\* some row of the table with a record id carries text v in the resolved field
ExistsRemotely(v) ==
    \E i \in 1..Len(store) :
        /\ StrOrEmpty(Get(store[i], "record_id")) # <<>>
        /\ CellText(store[i], ResolveField) = v

\* C10: the mapping the resolver returns holds every candidate value that
\* has a matching record in the remote table, however many matching or
\* duplicate rows the table holds.
C10_EveryExistingCandidateIsMapped ==
    pc = "returned" =>
        \A i \in 1..Len(values) :
            (Strip(values[i]) # <<>> /\ ExistsRemotely(Strip(values[i])))
                => Strip(values[i]) \in DOMAIN returned

RowId(row) == StrOrEmpty(Get(row, "record_id"))

\* the rows of RowsReceived that can enter the mapping under value v
Entering(v) ==
    {i \in 1..Len(RowsReceived) :
        RowId(RowsReceived[i]) # <<>> /\ CellText(RowsReceived[i], ResolveField) = v}

FirstEntering(v) == CHOOSE i \in Entering(v) : \A j \in Entering(v) : i <= j

\* C11: over the rows of all searches in the order they were processed, the
\* mapping holds for each value the record id of the first row that carries
\* the value and a non-empty record id; a later row with the value changes
\* nothing.
C11_FirstSeenRecordIdWins ==
    (pc \in {"batch", "returned", "raised"}) =>
        /\ \A v \in DOMAIN existing :
              /\ v # <<>>
              /\ Entering(v) # {}
              /\ existing[v] = RowId(RowsReceived[FirstEntering(v)])
        /\ \A i \in 1..Len(RowsReceived) :
              (RowId(RowsReceived[i]) # <<>> /\ CellText(RowsReceived[i], ResolveField) # <<>>)
                  => CellText(RowsReceived[i], ResolveField) \in DOMAIN existing
        /\ pc = "returned" => returned = existing

C11_Witness ==
    /\ pc = "returned"
    /\ Len(RowsReceived) = 2
    /\ Entering(<<97>>) = {1, 2}
    /\ RowId(RowsReceived[1]) # RowId(RowsReceived[2])
    /\ returned[<<97>>] = RowId(RowsReceived[1])

----------------------------------------------------------------------------
(* Write path: properties *)

IsCreateCall(k) == calls[k].op \in {"create", "batch_create"}

\* the create and batch-create calls issued so far, in order
CreateCalls == SelectSeq(calls, LAMBDA c : c.op \in {"create", "batch_create"})

NoCreateFailure == \A k \in 1..Len(calls) : IsCreateCall(k) => outcomes[k] = "ok"

RECURSIVE ChunksJoined(_, _)
ChunksJoined(cc, n) ==
    IF n = 0 THEN <<>> ELSE ChunksJoined(cc, n - 1) \o cc[n].records

\* C6: a run whose create calls all succeed sends one accepted record by a
\* single create call and no batch call, and two or more records by
\* ceil(R/500) batch calls that carry, in input order, consecutive slices of
\* at most 500 records covering every record once; created ends as R.
C6_CreatesAreChunkedInOrder ==
    (pc = "done" /\ stdout # NoValue /\ NoCreateFailure) =>
        LET R == Len(records)
            cc == CreateCalls
        IN /\ R = 1 => cc = <<CreateCall(Get(records[1], "fields"))>>
           /\ R # 1 =>
                /\ Len(cc) = (R + 499) \div 500
                /\ \A k \in 1..Len(cc) :
                      /\ cc[k].op = "batch_create"
                      /\ Len(cc[k].records) <= 500
                      /\ cc[k].records = SubSeq(records, 500 * (k - 1) + 1, Min(500 * k, R))
                /\ ChunksJoined(cc, Len(cc)) = records
           /\ created = R
           /\ stdout.created = R
           /\ stdout.requested = R

C6_Witness ==
    /\ pc = "done"
    /\ stdout # NoValue
    /\ NoCreateFailure
    /\ Len(records) = 1200
    /\ Len(calls) = 3
    /\ Len(calls[1].records) = 500
    /\ Len(calls[2].records) = 500
    /\ Len(calls[3].records) = 200
    /\ stdout.created = 1200

RECURSIVE SentBefore(_)
SentBefore(k) ==
    IF k <= 1 THEN 0
    ELSE SentBefore(k - 1)
         + (IF calls[k - 1].op = "batch_create" THEN Len(calls[k - 1].records) ELSE 0)

\* C7: when a batch-create call fails no further call is issued, and the run
\* ends by reporting the failure as exactly one entry added to errors, with
\* created counting the records of the chunks sent before it and no more.
C7_FailedChunkStopsAndIsReported ==
    \A k \in 1..Len(calls) :
        (calls[k].op = "batch_create" /\ outcomes[k] # "ok") =>
            /\ k = Len(calls)
            /\ pc = "done" =>
                /\ stdout # NoValue
                /\ Len(stdout.errors) = Count(fate, "no_fields") + 1
                /\ stdout.failed = Len(stdout.errors)
                /\ stdout.created = SentBefore(k)

\* row and item agree on one skip field
RowAgrees(row, item, name) ==
    LET value == extract_item_value(item, name)
    IN /\ value # <<>>
       /\ IF name = "RecordID"
          THEN StrOrEmpty(Get(row, "record_id")) = value
          ELSE CellText(row, MappedField(name)) = value

\* C8: an item is skipped only if one record of the table agrees with it on
\* every listed skip field, and an item with a listed skip field that is
\* empty or matched by no record is not skipped.
C8_SkippedOnlyOnOneMatchingRecord ==
    (fate # <<>> /\ skip_fields # <<>>) =>
        \A i \in 1..Len(creates) :
            /\ fate[i] = "skipped" =>
                  \E r \in 1..Len(store) :
                      \A n \in 1..Len(skip_fields) :
                          RowAgrees(store[r], creates[i], skip_fields[n])
            /\ (\E n \in 1..Len(skip_fields) :
                    \A r \in 1..Len(store) :
                        ~RowAgrees(store[r], creates[i], skip_fields[n]))
                => fate[i] # "skipped"

\* C13: every run of the writer that has passed configuration prints the
\* result object and exits 0 if its errors are empty and 1 otherwise, also
\* when a create call fails with a remote or a transport error.
C13_EveryRunPrintsTheResult ==
    (pc = "done") =>
        /\ stdout # NoValue
        /\ stdout.requested = Len(records)
        /\ stdout.skipped = skipped
        /\ stdout.failed = Len(stdout.errors)
        /\ exit_code = (IF stdout.errors = <<>> THEN 0 ELSE 1)

\* the "no fields to create" entries of a list of errors
NoFieldErrors(errs) == Cardinality({i \in 1..Len(errs) : errs[i] = NoFieldsError})

\* C27: once the items are parted, skipped + requested + the number of "no
\* fields to create" errors is the number of input items, in main's state
\* and in the printed result; 0 <= created <= requested always; while no
\* item is accepted no create call of either kind is issued.
C27_EveryItemAccountedOnce ==
    /\ pc \in {"create", "report"} =>
            skipped + Len(records) + NoFieldErrors(errors) = Len(creates)
    /\ stdout # NoValue =>
        /\ stdout.skipped + stdout.requested + NoFieldErrors(stdout.errors) = Len(creates)
        /\ 0 <= stdout.created /\ stdout.created <= stdout.requested
    /\ 0 <= created /\ created <= Len(records)
    /\ Len(records) = 0 => CreateCalls = <<>>

\* two items, one skipped and one without fields: nothing requested, no
\* create call, and the result is printed
C27_Witness ==
    /\ stdout # NoValue
    /\ Len(creates) = 2
    /\ stdout.skipped = 1
    /\ stdout.requested = 0
    /\ NoFieldErrors(stdout.errors) = 1
    /\ CreateCalls = <<>>

----------------------------------------------------------------------------
(* Functions: properties *)

ArgSegments == NonEmpty(Split(StripChar(urlparse(Strip(StrOrEmpty(arg))).path, 47), 47))

ArgQuery == parse_qsl(urlparse(Strip(StrOrEmpty(arg))).query)

\* the positions of a marker that has a segment after it
MarkerAt(marker) == {i \in 1..(Len(ArgSegments) - 1) : ArgSegments[i] = marker}

\* the non-blank values of the query for one name, trimmed
Present(key) ==
    LET vals == SelectSeq(QueryValues(ArgQuery, key), LAMBDA v : Strip(v) # <<>>)
    IN [i \in 1..Len(vals) |-> Strip(vals[i])]

\* the first value of the first of three synonyms that has one, else ""
FirstSynonym(k1, k2, k3) ==
    IF Present(k1) # <<>> THEN Present(k1)[1]
    ELSE IF Present(k2) # <<>> THEN Present(k2)[1]
    ELSE IF Present(k3) # <<>> THEN Present(k3)[1]
    ELSE <<>>

\* C19: the container id is the segment after the first "base" segment; with
\* no such marker the indirection id is the segment after a "wiki" segment
\* and the container id is empty; with neither marker the container id is the
\* last path segment. Table and view id are the first present of table,
\* tableId, table_id and of view, viewId, view_id, the view defaulting to "".
C19_ContainerAndTableFromUrl ==
    (pc = "done") =>
        /\ MarkerAt(TextBase) # {} =>
              \E i \in MarkerAt(TextBase) :
                  /\ \A j \in MarkerAt(TextBase) : i <= j
                  /\ result.app_token = ArgSegments[i + 1]
        /\ (MarkerAt(TextBase) = {} /\ MarkerAt(TextWiki) # {}) =>
              /\ \E i \in MarkerAt(TextWiki) : result.wiki_token = ArgSegments[i + 1]
              /\ result.app_token = <<>>
        /\ (MarkerAt(TextBase) = {} /\ MarkerAt(TextWiki) = {}) =>
              /\ result.wiki_token = <<>>
              /\ result.app_token =
                    (IF ArgSegments = <<>> THEN <<>> ELSE ArgSegments[Len(ArgSegments)])
        /\ result.table_id = FirstSynonym(TextTable, TextTable \o TextId, TextTable \o TextUnderId)
        /\ result.table_id # <<>>
        /\ result.view_id = FirstSynonym(TextView, TextView \o TextId, TextView \o TextUnderId)
        /\ arg = Str(ExampleBaseUrl) =>
              /\ result.app_token = <<65, 66, 67, 49, 50, 51>>
              /\ result.table_id = <<84, 49>>
              /\ result.view_id = <<86, 49>>
        /\ arg = Str(ExampleWikiUrl) =>
              /\ result.wiki_token = <<87, 75, 49>>
              /\ result.app_token = <<>>
              /\ result.table_id = <<84, 49>>

C19_Witness ==
    /\ pc = "done"
    /\ MarkerAt(TextBase) = {} /\ MarkerAt(TextWiki) = {}
    /\ Len(ArgSegments) = 2
    /\ result.app_token = ArgSegments[2]
    /\ Present(TextTable) = <<>>
    /\ result.table_id = <<84>>

----------------------------------------------------------------------------
(* Configuration: properties *)

\* the run has a reference error: its URL has no scheme or no table id
ReferenceFault ==
    /\ ConfigFault = ""
    /\ parse_bitable_url(arg.task_url).error \in
          {"bitable url missing scheme", "missing table_id in bitable url query"}

\* C14: in the reader and in the writer a missing task URL, missing
\* credentials, an empty task list, a task URL without scheme and a task URL
\* without table id are each printed to the error stream and end the run with
\* exit code 2.
C14_ConfigAndReferenceErrorsExitTwo ==
    (pc = "done" /\ (ConfigFault # "" \/ ReferenceFault)) =>
        /\ exit_code = 2
        /\ Len(stderr) = 1
        /\ stderr[1].type = "message"

\* C15: a run that ends with a configuration error, the URL that names
\* neither container nor indirection id included, has issued no remote call.
C15_ConfigErrorBeforeAnyCall ==
    (/\ pc = "done"
     /\ exit_code = 2
     /\ stderr[Len(stderr)].what \in
           {"TASK_BITABLE_URL is required", "FEISHU_APP_ID/FEISHU_APP_SECRET are required",
            "no tasks provided", MissingTokens})
        => calls = <<>>

----------------------------------------------------------------------------
(* Cell values: properties *)

\* C17: a null gives "", a string its trimmed text, an integer its decimal
\* text, a float its decimal text without the fraction when it is integral,
\* true gives "true" and false gives "false".
C17_ScalarsByShape ==
    (pc = "done") =>
        /\ arg.t = "null" => result.v = <<>>
        /\ arg.t = "str" => result.v = Strip(arg.v)
        /\ arg.t = "int" => result.v = DecimalText(arg.v)
        /\ (arg.t = "float" /\ arg.v % 10 = 0) => result.v = DecimalText(Trunc(arg.v))
        /\ (arg.t = "float" /\ arg.v % 10 # 0) => result.v = FloatText(arg.v)
        /\ arg = Float(30) => result.v = <<51>>
        /\ arg = Float(35) => result.v = <<51, 46, 53>>
        /\ arg = Bool(TRUE) => result.v = <<116, 114, 117, 101>>
        /\ arg = Bool(FALSE) => result.v = <<102, 97, 108, 115, 101>>

HasTextKey(xs) == \E i \in 1..Len(xs) : xs[i].t = "dict" /\ HasKey(xs[i], "text")

\* what one element of a rich-text array adds: its text, the nested value
\* when the text is absent or blank, its own normalization when it is no object
RunText(e) ==
    IF e.t # "dict" THEN normalize_bitable_value(e)
    ELSE IF HasKey(e, "text") /\ Get(e, "text").t = "str" /\ Strip(Get(e, "text").v) # <<>>
    THEN Strip(Get(e, "text").v)
    ELSE normalize_bitable_value(Get(e, "value"))

CallsOf(op) == {i \in 1..Len(calls) : calls[i].op = op}

\* the reference as the task URL gives it, before any resolution
ParsedRef == parse_bitable_url(arg.task_url)

\* C24: the indirection lookup is invoked at most once per run, and only when
\* the parsed container id is empty and the indirection id is non-empty; it
\* either returns a non-empty container id or the run fails; every search,
\* create or probe call of a run carries a non-empty container id.
C24_ContainerResolvedBeforeUse ==
    /\ Cardinality(CallsOf("wiki")) <= 1
    /\ \A i \in CallsOf("wiki") :
        /\ ParsedRef.error = ""
        /\ ParsedRef.app_token = <<>>
        /\ ParsedRef.wiki_token # <<>>
        /\ \/ outcomes[i] = "ok" /\ result.app_token # <<>>
           \/ /\ outcomes[i] # "ok"
              /\ pc \in {"done", "raised"}
              /\ pc = "done" => exit_code # 0
              /\ i = Len(calls)
    /\ \A i \in CallsOf("search") \cup CallsOf("create") \cup CallsOf("probe") :
        /\ calls[i].app_token # <<>>
        /\ calls[i].app_token = result.app_token

\* a run whose URL names a wiki node looked the container up, got " o " for
\* it and addressed the table with "o"
C24_Witness ==
    /\ pc = "running"
    /\ CallsOf("wiki") = {2}
    /\ responses[1].obj_token = Str(<<32, 111, 32>>)
    /\ calls[3].op \in {"search", "create", "probe"}
    /\ calls[3].app_token = <<111>>

----------------------------------------------------------------------------
(* Rows to tasks: properties *)

\* the text of the row's id cell after normalization
IdText == field_string(arg, "TaskID")

\* the id coerces to a non-zero integer
IdCoerces == IdText # <<>> /\ IntOfFloat(IdText).kind = "int" /\ IntOfFloat(IdText).v # 0

\* one of params, item_id, book_id, url, user_id, user_name is non-empty
\* after normalization
HasPayload == \E k \in PayloadKeys : field_string(arg, ColumnOf(k)) # <<>>

\* C16: decode_task returns a Task iff the row's task id coerces to a
\* non-zero integer and at least one of params, item_id, book_id, url,
\* user_id, user_name is non-empty after normalization; otherwise it returns
\* none; every absent field of a returned Task decodes to "".
C16_TaskIffIdAndPayload ==
    /\ pc # "raised"
    /\ pc = "done" =>
        /\ result # Null <=> IdCoerces /\ HasPayload
        /\ result # Null =>
            /\ result.task_id = IntOfFloat(IdText).v
            /\ \A k \in TaskKeys :
                Get(arg, ColumnOf(k)) = Null => result.texts[k] = <<>>

----------------------------------------------------------------------------
(* Creation fields: properties *)

\* the start in milliseconds: start_at, or dispatched_at when it does not resolve
StartMillis ==
    IF coerce_millis(arg.start_at) # Null THEN coerce_millis(arg.start_at)
    ELSE coerce_millis(arg.dispatched_at)

\* the end in milliseconds: completed_at when present, else end_at
EndMillis ==
    IF coerce_millis(arg.completed_at) # Null THEN coerce_millis(arg.completed_at)
    ELSE coerce_millis(arg.end_at)

\* the elapsed_seconds the item supplies, Null when it supplies none
SuppliedElapsed == coerce_int(arg.elapsed_seconds)

FloorSeconds == (EndMillis.v - StartMillis.v) \div 1000

\* C20: when elapsed_seconds is not supplied and both start and end resolve
\* to millisecond timestamps, the emitted ElapsedSeconds is
\* max(0, floor((end - start) / 1000)); a supplied elapsed_seconds is emitted
\* unchanged; when start or end does not resolve and none is supplied, no
\* ElapsedSeconds column is emitted.
C20_ElapsedSecondsDerived ==
    pc = "done" =>
        /\ SuppliedElapsed = Null /\ StartMillis # Null /\ EndMillis # Null =>
            GetOr(result, "ElapsedSeconds", NoValue)
                = Num(IF FloorSeconds < 0 THEN 0 ELSE FloorSeconds)
        /\ SuppliedElapsed # Null =>
            GetOr(result, "ElapsedSeconds", NoValue) = SuppliedElapsed
        /\ SuppliedElapsed = Null /\ (StartMillis = Null \/ EndMillis = Null) =>
            ~HasKey(result, "ElapsedSeconds")

\* start 1000 ms and end 4000 ms with no elapsed_seconds gave 3
C20_Witness ==
    /\ pc = "done"
    /\ arg.start_at = Num(1000) /\ arg.end_at = Num(4000)
    /\ arg.completed_at = Null /\ arg.elapsed_seconds = Null
    /\ Get(result, "ElapsedSeconds") = Num(3)

----------------------------------------------------------------------------
(* Input items: properties *)

\* the non-blank texts the item carries under the four CDN keys, trimmed
CdnTexts ==
    {Strip(arg.item[k].v) : k \in {key \in {"CDNURL", "cdn_url", "cdnUrl", "cdnurl"} :
                                      arg.item[key].t = "str" /\ Strip(arg.item[key].v) # <<>>}}

\* the caller's own extra: the item's, else the command line's
OwnExtra == IF arg.item.extra # Null THEN arg.item.extra ELSE arg.args.extra

OverrideNamesExtra == arg.item.fields # Null /\ HasKey(arg.item.fields, "Extra")

\* C21: for an item with a non-blank text under one of the four CDN URL keys
\* the extra becomes {cdn_url: <that text>} with the force flag set, whatever
\* extra the item or the command line gave, and the Extra column is emitted;
\* for an item without one, the extra rule emits Extra only if the caller's
\* normalized extra is non-empty.
C21_CdnShortcutForcesExtra ==
    /\ pc \in {"loaded", "done"} =>
        /\ CdnTexts # {} =>
            /\ \E url \in CdnTexts : result.extra = Dict(<< <<"cdn_url", Str(url)>> >>)
            /\ result.force_extra = Bool(TRUE)
        /\ CdnTexts = {} =>
            /\ result.extra = OwnExtra
            /\ result.force_extra = Bool(FALSE)
    /\ pc = "done" =>
        /\ CdnTexts # {} => HasKey(returned, "Extra")
        /\ CdnTexts # {} /\ ~OverrideNamesExtra =>
            \E url \in CdnTexts :
                Get(returned, "Extra") = Str(JsonDumps(Dict(<< <<"cdn_url", Str(url)>> >>)))
        /\ (CdnTexts = {} /\ ~OverrideNamesExtra /\ HasKey(returned, "Extra")) =>
            normalize_extra(OwnExtra) # <<>>

\* an item with cdnurl " v " and an extra of its own was built with the
\* Extra column {"cdn_url": "v"}
C21_Witness ==
    /\ pc = "done"
    /\ arg.item.cdnurl = Str(<<32, 118, 32>>)
    /\ arg.item.CDNURL = Null /\ arg.item.cdn_url = Num(5) /\ arg.item.cdnUrl = Str(<<32>>)
    /\ arg.item.extra = Dict(<< <<"a", Num(1)>> >>)
    /\ result.extra = Dict(<< <<"cdn_url", Str(<<118>>)>> >>)
    /\ Get(returned, "Extra") = Str(JsonDumps(result.extra))

----------------------------------------------------------------------------
(* Resume state: properties *)

\* a line that is a success record: an object with a non-blank CDN URL and
\* no error message
SuccessLine(line) ==
    /\ line.kind = "value"
    /\ line.item.t = "dict"
    /\ \E key \in {"CDNURL", "cdn_url", "cdnUrl"} :
          Get(line.item, key).t = "str" /\ Strip(Get(line.item, key).v) # <<>>
    /\ Get(line.item, "error_msg") \in {Null, Num(0)}
          \/ (Get(line.item, "error_msg").t = "str" /\ Strip(Get(line.item, "error_msg").v) = <<>>)

\* the URLs of a line
LineUrls(line) ==
    {Strip(Get(line.item, key).v) : key \in {k \in {"URL", "url"} : Get(line.item, k).t = "str"}}

\* C26: load_resume_success_urls never raises, whether the output file is
\* missing, cannot be opened or cannot be decoded, and whatever its lines
\* are; the set it returns holds only URLs of lines that are success records.
C26_ResumeLoadingNeverRaises ==
    /\ pc # "raised"
    /\ pc = "done" =>
        \A url \in returned :
            \E i \in 1..Len(arg.lines) :
                SuccessLine(arg.lines[i]) /\ url \in LineUrls(arg.lines[i])

----------------------------------------------------------------------------
(* Batches of resolutions: properties *)

\* the batch went through the pool of workers
Pooled == arg.workers > 1 /\ Len(arg.batch) # 1

\* the outcome of a batch item: what its resolution returned, or the error
\* record that stands for the exception it raised
OutcomeOf(item) ==
    IF item.does = "raises"
    THEN [url |-> item.text, cdn_url |-> <<>>, error_msg |-> <<120>>]
    ELSE process_one(item)

\* C25: with a worker pool process_batch returns, in whatever order the
\* resolutions complete and also when some raise, exactly one result per
\* batch item in input order: result i is the outcome of batch item i.
C25_PoolResultsInInputOrder ==
    /\ Pooled => pc # "raised"
    /\ (Pooled /\ pc = "done") =>
        /\ Len(returned) = Len(arg.batch)
        /\ \A i \in 1..Len(arg.batch) : returned[i] = OutcomeOf(arg.batch[i])

\* three items of which the second raised: the second and the third are
\* stored at their places while the first is still running
C25_Witness ==
    /\ pc = "pool"
    /\ Pooled
    /\ Len(arg.batch) = 3
    /\ arg.batch[2].does = "raises"
    /\ result.status = <<"running", "collected", "collected">>
    /\ result.results[1] = NoValue
    /\ result.results[2] = OutcomeOf(arg.batch[2])
    /\ result.results[3] = OutcomeOf(arg.batch[3])
    /\ result.completed = 2

====
